---- MODULE Spec2Model ----
(***************************************************************************)
(* OctoCanvas: a Preact application that fetches a public GitHub profile   *)
(* and renders wallpapers, Devemon cards and README banners.               *)
(*                                                                         *)
(* The module models                                                       *)
(*   - the rarity computation of DevemonCard (calculateRarity),            *)
(*   - the GitHubWallpaperApp form: username input, submission, the        *)
(*     profile and contributions requests and their completions,           *)
(*   - the extended-stats request of DevemonCard and ReadmeBanner,         *)
(*   - the export and share handlers of the three generators,              *)
(*   - the SVG, ASCII and pixel-art renderers of the generators,           *)
(*   - the tab list and the wallpaper theme selector of the application,   *)
(*   - the avatar conversion of WallpaperGenerator and overlapping         *)
(*     downloadWallpaper calls.                                            *)
(*                                                                         *)
(* Numbers: the power level of calculateRarity is a double that carries a  *)
(* 0.1 weight.  The model keeps it in tenths (an integer).  The weight 0.1 *)
(* as a double is 0.1*(1+2^-54); for integer counts below 2^53 the rounded *)
(* sum is within 1e-9 of the exact rational and the exact value is either  *)
(* an integer (which the rounded product reproduces exactly) or at least   *)
(* 0.1 away from every integer threshold, so every comparison              *)
(* powerLevel >= N in the source agrees with tenths >= 10*N.               *)
(***************************************************************************)
EXTENDS Integers, Sequences, FiniteSets, TLC

VARIABLES
    \* ---- calculateRarity applied to two cards (rarity specification)
    statsA, statsB,     \* the inputs of two DevemonCard instances
    powerA, powerB,     \* computed power levels, in tenths; -1 before the call
    rarityA, rarityB,   \* computed tiers; "none" before the call
    rpc                 \* "input" | "done"

rarityVars == <<statsA, statsB, powerA, powerB, rarityA, rarityB, rpc>>

VARIABLES
    \* ---- GitHubWallpaperApp state (useState hooks)
    username,       \* text of the input, a sequence of characters
    userData,       \* <<>> for null, <<d>> for a GitHubUser d
    loading,
    error,          \* "" when no error is shown
    hasSubmitted,
    selectedTab,    \* 0..2
    \* ---- asynchronous runs of fetchGitHubUser that have not returned
    calls,          \* sequence of [cleanUsername, pc, data]
    \* ---- history
    submitted,      \* clean username of the latest run that issued a request
    prevSubmitted,  \* the one before it
    ev              \* the handler that ran last and what it was given

appVars == <<username, userData, loading, error, hasSubmitted, selectedTab,
             calls, submitted, prevSubmitted, ev>>

VARIABLES
    \* ---- DevemonCard and ReadmeBanner instances (mounted while userData)
    card,           \* [mounted, loading, extendedStats, pending]
    banner

statsVars == <<card, banner>>

VARIABLES
    \* ---- export and share handlers
    run,            \* the handler run in progress, see StartRun
    downloadingSize \* WallpaperGenerator state, NoSize for null

exportVars == <<run, downloadingSize>>

VARIABLES
    \* ---- rendering functions applied to drawn inputs
    svg,            \* generateSVG: [pc, contributions, theme, isMobile, ...]
    ascii,          \* generateAsciiArt: [pc, image, out]
    art             \* ReadmeBanner art state and its loadArt run

renderVars == <<svg, ascii, art>>

VARIABLES
    \* ---- the page around the React state
    activeElement   \* tabElements.indexOf(document.activeElement): the index
                    \* of the focused tab, -1 when the focus is not on a tab

VARIABLES
    wallpaperTheme  \* GitHubWallpaperApp state, the generator's selectedTheme

VARIABLES
    \* ---- WallpaperGenerator instance
    avatar,         \* convertAvatarToBase64: [pc, avatarBase64, avatarBase64Ref]
    downloads       \* the downloadWallpaper calls that have not returned

pageVars == <<activeElement, wallpaperTheme, avatar, downloads>>

vars == <<rarityVars, appVars, statsVars, exportVars, renderVars, pageVars>>

\* ------------------------------------------------------------------------
\* DevemonCard.tsx: rarity
\* ------------------------------------------------------------------------

\* user.contributions is optional: an absent value is a record marked so
Absent == [present |-> FALSE, totalContributions |-> 0, weeks |-> <<>>]

ContributionData(total, weeks) ==
    [present |-> TRUE, totalContributions |-> total, weeks |-> weeks]

\* keys of RARITY_LEVELS, lowest tier first
RARITY_LEVELS == <<"common", "uncommon", "rare", "epic", "legendary", "mythical">>

TierRank(t) == CHOOSE i \in 1..Len(RARITY_LEVELS) : RARITY_LEVELS[i] = t

\* user.contributions?.totalContributions || 0
totalContributionsOf(user) ==
    IF ~user.contributions.present THEN 0
    ELSE user.contributions.totalContributions

\* a variant with the weights of the README (followers * 10, repos * 5)
powerLevelReadmeWeights(user, extendedStats) ==
    user.followers * 100 +
    user.public_repos * 50 +
    totalContributionsOf(user) * 1

\* a variant that adds 1 to public_repos instead of multiplying by 1
powerLevelReposPlusOne(user, extendedStats) ==
    user.followers * 20 +
    (user.public_repos + 1) * 10 +
    totalContributionsOf(user) * 1 +
    extendedStats.totalStars * 30 +
    extendedStats.totalForks * 20

\* powerLevel of calculateRarity, in tenths
powerLevel(user, extendedStats) ==
    user.followers * 20 +
    user.public_repos * 10 +
    totalContributionsOf(user) * 1 +
    extendedStats.totalStars * 30 +
    extendedStats.totalForks * 20

\* a variant whose comparisons are strict
calculateRarityStrict(user, extendedStats) ==
    LET p == powerLevel(user, extendedStats) IN
    IF p > 50000 THEN "mythical"
    ELSE IF p > 20000 THEN "legendary"
    ELSE IF p > 8000 THEN "epic"
    ELSE IF p > 3000 THEN "rare"
    ELSE IF p > 1000 THEN "uncommon"
    ELSE "common"

calculateRarity(user, extendedStats) ==
    LET p == powerLevel(user, extendedStats) IN
    IF p >= 50000 THEN "mythical"
    ELSE IF p >= 20000 THEN "legendary"
    ELSE IF p >= 8000 THEN "epic"
    ELSE IF p >= 3000 THEN "rare"
    ELSE IF p >= 1000 THEN "uncommon"
    ELSE "common"

\* ------------------------------------------------------------------------
\* GitHubWallpaperApp: username handling
\* ------------------------------------------------------------------------

IsSpace(c) == c = " "

\* String.prototype.replace(/^@/, ""): drops one leading '@'
StripLeadingAt(s) == IF Len(s) > 0 /\ s[1] = "@" THEN Tail(s) ELSE s

RECURSIVE TrimStart(_)
TrimStart(s) == IF Len(s) > 0 /\ IsSpace(s[1]) THEN TrimStart(Tail(s)) ELSE s

RECURSIVE TrimEnd(_)
TrimEnd(s) ==
    IF Len(s) > 0 /\ IsSpace(s[Len(s)]) THEN TrimEnd(SubSeq(s, 1, Len(s) - 1))
    ELSE s

\* String.prototype.trim
Trim(s) == TrimEnd(TrimStart(s))

\* username.replace(/^@/, "").trim()
getCleanUsername(s) == Trim(StripLeadingAt(s))

\* values the user types into the input
TypedUsernames ==
    { <<>>, <<"@">>, <<"a">>, <<"@", "a">>, <<" ", "a", " ">>,
      <<" ", "@", "a">>, <<"b">> }

Null == <<>>
Some(d) == <<d>>

\* err instanceof Error ? err.message : "An error occurred"
ErrorMessage(err) == IF err.isError THEN err.message ELSE "An error occurred"

ErrorValue(msg) == [isError |-> TRUE, message |-> msg]

\* ------------------------------------------------------------------------
\* GitHubWallpaperApp: fetchContributionData
\* ------------------------------------------------------------------------

\* a JSON field that is not there (undefined)
Missing == -1

\* x || 0 for a numeric field
OrZero(x) == IF x = Missing THEN 0 ELSE x

\* the value returned when the request fails: { totalContributions: 0, weeks: [] }
EmptyContributions == ContributionData(0, <<>>)

\* week.contribution_days.map(day => ({ contributionCount: day.count, date: "" }))
TransformWeek(week) ==
    [contributionDays |->
        [i \in 1..Len(week.contribution_days) |->
            [contributionCount |-> week.contribution_days[i], date |-> ""]]]

\* An API week; hasDays = FALSE is a week object without contribution_days.
ApiWeek(days) == [hasDays |-> TRUE, contribution_days |-> days]
ApiWeekWithoutDays == [hasDays |-> FALSE, contribution_days |-> <<>>]

\* response bodies of the contributions endpoint: data.weeks || [] is
\* modelled by hasWeeks
ContributionBodies ==
    { [total_contributions |-> 5, hasWeeks |-> TRUE,
       weeks |-> <<ApiWeek(<<1, 0, 4>>)>>],
      [total_contributions |-> Missing, hasWeeks |-> FALSE, weeks |-> <<>>],
      [total_contributions |-> 5, hasWeeks |-> TRUE,
       weeks |-> <<ApiWeek(<<1, 0, 4>>), ApiWeekWithoutDays>>] }

NoBody == [total_contributions |-> Missing, hasWeeks |-> FALSE, weeks |-> <<>>]

\* how a fetch settles: kind "ok" (response.ok, body parsed), "status"
\* (response received, not ok), "throw" (fetch rejected), "badjson"
\* (response.ok, response.json() rejected)
ContributionOutcomes ==
    {[kind |-> "ok", status |-> 200, body |-> b] : b \in ContributionBodies}
    \cup {[kind |-> "status", status |-> st, body |-> NoBody] : st \in {404, 500}}
    \cup {[kind |-> "throw", status |-> 0, body |-> NoBody],
          [kind |-> "badjson", status |-> 200, body |-> NoBody]}

\* does the parsed body make the transformation of fetchContributionData
\* throw?  (a week without contribution_days)
BodyLacksDays(body) ==
    body.hasWeeks /\ \E i \in 1..Len(body.weeks) : ~body.weeks[i].hasDays

\* a variant that skips weeks without contribution_days instead of failing
fetchContributionDataSkipping(outcome) ==
    IF outcome.kind = "ok"
    THEN ContributionData(OrZero(outcome.body.total_contributions), <<>>)
    ELSE EmptyContributions

\* the value fetchContributionData resolves to
fetchContributionData(outcome) ==
    IF outcome.kind = "ok"
    THEN LET data == outcome.body
             apiWeeks == IF data.hasWeeks THEN data.weeks ELSE <<>>
         IN  IF \E i \in 1..Len(apiWeeks) : ~apiWeeks[i].hasDays
             THEN EmptyContributions     \* TypeError in forEach, caught
             ELSE ContributionData(OrZero(data.total_contributions),
                                   [i \in 1..Len(apiWeeks) |-> TransformWeek(apiWeeks[i])])
    ELSE EmptyContributions

\* ------------------------------------------------------------------------
\* DevemonCard / ReadmeBanner: extended stats
\* ------------------------------------------------------------------------

Repo(stars, forks, language) ==
    [stargazers_count |-> stars, forks_count |-> forks, language |-> language]

\* a list with six languages, three of them used by one repository each
ManyLanguages ==
    <<Repo(1, 0, "C"), Repo(0, 0, "Go"), Repo(4, 1, "TS"), Repo(0, 0, ""),
      Repo(2, 2, "Py"), Repo(0, 1, "Rust"), Repo(Missing, 0, "TS"),
      Repo(1, 0, "Java"), Repo(0, Missing, "Go"), Repo(3, 0, "Rust"),
      Repo(1, 1, "TS")>>

\* language "" stands for null
RepoLists ==
    { <<>>,
      <<Repo(3, 1, "TS")>>,
      <<Repo(Missing, Missing, ""), Repo(2, 0, "Go"), Repo(1, 1, "TS"),
        Repo(0, 2, "Go")>>,
      ManyLanguages }

RECURSIVE SumStars(_)
SumStars(repos) ==
    IF repos = <<>> THEN 0
    ELSE OrZero(repos[1].stargazers_count) + SumStars(Tail(repos))

RECURSIVE SumForks(_)
SumForks(repos) ==
    IF repos = <<>> THEN 0
    ELSE OrZero(repos[1].forks_count) + SumForks(Tail(repos))

\* keys of languageCount in insertion order (Object.entries order)
RECURSIVE LanguageKeys(_, _)
LanguageKeys(repos, seen) ==
    IF repos = <<>> THEN seen
    ELSE LET l == repos[1].language IN
         IF l = "" \/ (\E i \in 1..Len(seen) : seen[i] = l)
         THEN LanguageKeys(Tail(repos), seen)
         ELSE LanguageKeys(Tail(repos), Append(seen, l))

LanguageCount(repos, l) ==
    Cardinality({i \in 1..Len(repos) : repos[i].language = l})

\* a variant of the comparator that sorts by ascending count
RECURSIVE InsertByCountAscending(_, _)
InsertByCountAscending(sorted, e) ==
    IF sorted = <<>> THEN <<e>>
    ELSE IF sorted[1].count <= e.count
         THEN <<sorted[1]>> \o InsertByCountAscending(Tail(sorted), e)
         ELSE <<e>> \o sorted

\* Array.prototype.sort(([, a], [, b]) => b - a): stable, descending count
RECURSIVE InsertByCount(_, _)
InsertByCount(sorted, e) ==
    IF sorted = <<>> THEN <<e>>
    ELSE IF sorted[1].count >= e.count
         THEN <<sorted[1]>> \o InsertByCount(Tail(sorted), e)
         ELSE <<e>> \o sorted

RECURSIVE SortByCount(_)
SortByCount(entries) ==
    IF entries = <<>> THEN <<>>
    ELSE InsertByCount(SortByCount(SubSeq(entries, 1, Len(entries) - 1)),
                       entries[Len(entries)])

\* slice(0, n)
Slice(seq, n) == SubSeq(seq, 1, IF Len(seq) < n THEN Len(seq) ELSE n)

\* Object.entries(languageCount).sort(...).slice(0, n)
TopLanguageEntries(repos, n) ==
    LET keys == LanguageKeys(repos, <<>>)
        entries == [i \in 1..Len(keys) |->
                       [name |-> keys[i], count |-> LanguageCount(repos, keys[i])]]
    IN  Slice(SortByCount(entries), n)

CardTopN == 3
BannerTopN == 5

\* DevemonCard: top 3 language names
CardExtendedStats(repos) ==
    LET top == TopLanguageEntries(repos, CardTopN) IN
    [totalStars |-> SumStars(repos), totalForks |-> SumForks(repos),
     topLanguages |-> [i \in 1..Len(top) |-> top[i].name]]

\* ReadmeBanner: top 5 languages with counts
BannerExtendedStats(repos) ==
    [totalStars |-> SumStars(repos), totalForks |-> SumForks(repos),
     topLanguages |-> TopLanguageEntries(repos, BannerTopN)]

\* useState initial value of extendedStats
ZeroStats == [totalStars |-> 0, totalForks |-> 0, topLanguages |-> <<>>]

RepoOutcomes ==
    {[kind |-> "ok", repos |-> r] : r \in RepoLists}
    \cup {[kind |-> k, repos |-> <<>>] : k \in {"status", "throw", "badjson"}}

\* a component instance: mounted, its loading and extendedStats state,
\* whether its repository request is outstanding, how the request settled
\* and the repository list it delivered
Unmounted ==
    [mounted |-> FALSE, loading |-> TRUE, extendedStats |-> ZeroStats,
     pending |-> FALSE, outcome |-> "none", repos |-> <<>>]

\* first render and useEffect: useState(true), zero stats, request issued
Mounted ==
    [mounted |-> TRUE, loading |-> TRUE, extendedStats |-> ZeroStats,
     pending |-> TRUE, outcome |-> "none", repos |-> <<>>]

\* a variant without the finally block and without the early setLoading
fetchExtendedStatsNoFinally(c, outcome, stats) ==
    IF outcome.kind = "ok"
    THEN [c EXCEPT !.extendedStats = stats, !.loading = FALSE,
                   !.pending = FALSE, !.outcome = outcome.kind,
                   !.repos = outcome.repos]
    ELSE [c EXCEPT !.pending = FALSE, !.outcome = outcome.kind]

\* fetchExtendedStats once the request has settled; stats is the value
\* computed from the repository list
fetchExtendedStats(c, outcome, stats) ==
    IF outcome.kind = "ok"
    THEN [c EXCEPT !.extendedStats = stats, !.loading = FALSE,
                   !.pending = FALSE, !.outcome = outcome.kind,
                   !.repos = outcome.repos]
    ELSE \* !reposResponse.ok: setLoading(false); return
         \* thrown: catch logs, finally setLoading(false)
         [c EXCEPT !.loading = FALSE, !.pending = FALSE,
                   !.outcome = outcome.kind]

\* ------------------------------------------------------------------------
\* GitHubWallpaperApp: form, fetchGitHubUser
\* ------------------------------------------------------------------------

\* most runs of fetchGitHubUser the model lets be outstanding at once
MaxCalls == 2

ProfileBodies ==
    { [followers |-> 0, public_repos |-> 0],
      [followers |-> 50, public_repos |-> 1] }

NoProfile == [followers |-> 0, public_repos |-> 0]

ProfileOutcomes ==
    {[kind |-> "ok", status |-> 200, body |-> b] : b \in ProfileBodies}
    \cup {[kind |-> "status", status |-> st, body |-> NoProfile] : st \in {404, 500}}
    \cup {[kind |-> "throw", status |-> 0, body |-> NoProfile],
          [kind |-> "badjson", status |-> 200, body |-> NoProfile]}

\* a variant without the 404 branch
ProfileErrorGeneric(outcome) == ErrorValue("Failed to fetch user data")

\* the value thrown inside the try block of fetchGitHubUser
ProfileError(outcome) ==
    IF outcome.kind = "status"
    THEN IF outcome.status = 404
         THEN ErrorValue("User not found")
         ELSE ErrorValue("Failed to fetch user data")
    ELSE IF outcome.kind = "throw"
         THEN ErrorValue("Failed to fetch")            \* TypeError of fetch
         ELSE ErrorValue("Unexpected end of JSON input") \* SyntaxError of json()

GitHubUser(login, profile, contributions) ==
    [login |-> login, followers |-> profile.followers,
     public_repos |-> profile.public_repos, contributions |-> contributions]

Event(type, kind, status) == [type |-> type, kind |-> kind, status |-> status]

RemoveAt(seq, i) == SubSeq(seq, 1, i - 1) \o SubSeq(seq, i + 1, Len(seq))

\* a variant of the button that is hidden as soon as a request is issued
SubmitButtonRenderedUntilSubmitted == ~hasSubmitted

\* {(!hasSubmitted || loading) && <PrimaryButton type="submit" disabled={loading}>}
SubmitButtonRendered == ~hasSubmitted \/ loading
SubmitButtonDisabled == loading

\* a form whose submit button is never disabled
CanSubmitIgnoringDisabled == TRUE

\* The form can be submitted by clicking the rendered, enabled button or by
\* pressing Enter in the text input; a disabled default button blocks both.
CanSubmit == IF SubmitButtonRendered THEN ~SubmitButtonDisabled ELSE TRUE

\* TextInput onChange
EditUsername(value) ==
    /\ activeElement = -1          \* the focus is in the text input
    /\ value # username
    /\ username' = value
    /\ hasSubmitted' = IF hasSubmitted THEN FALSE ELSE hasSubmitted
    /\ ev' = Event("edit", "none", 0)
    /\ UNCHANGED <<userData, loading, error, selectedTab, calls, submitted,
                   prevSubmitted, prevSubmitted>>
    /\ UNCHANGED <<statsVars, rarityVars, exportVars, renderVars, pageVars>>

\* fetchGitHubUser up to its first await, rejected username
SubmitInvalid ==
    /\ CanSubmit
    /\ getCleanUsername(username) = <<>>
    /\ error' = "Please enter a valid GitHub username"
    /\ ev' = Event("submit", "invalid", 0)
    /\ UNCHANGED <<username, userData, loading, hasSubmitted, selectedTab,
                   calls, submitted, prevSubmitted>>
    /\ UNCHANGED <<statsVars, rarityVars, exportVars, renderVars, pageVars>>

\* fetchGitHubUser up to its first await, request issued; userData = null
\* unmounts the three generators
SubmitRequest ==
    /\ CanSubmit
    /\ getCleanUsername(username) # <<>>
    /\ Len(calls) < MaxCalls
    /\ loading' = TRUE
    /\ error' = ""
    /\ userData' = Null
    /\ hasSubmitted' = TRUE
    /\ calls' = Append(calls, [cleanUsername |-> getCleanUsername(username),
                               pc |-> "profile", data |-> NoProfile])
    /\ submitted' = getCleanUsername(username)
    /\ prevSubmitted' = submitted
    /\ card' = Unmounted
    /\ banner' = Unmounted
    /\ ev' = Event("submit", "request", 0)
    /\ UNCHANGED <<username, selectedTab>>
    /\ UNCHANGED <<rarityVars, exportVars, renderVars, pageVars>>

\* the profile request settles with an ok response: response.json(), then
\* fetchContributionData issues the contributions request
ProfileOk(i, outcome) ==
    /\ i \in 1..Len(calls)
    /\ calls[i].pc = "profile"
    /\ outcome.kind = "ok"
    /\ calls' = [calls EXCEPT ![i].pc = "contributions", ![i].data = outcome.body]
    /\ ev' = Event("profile", outcome.kind, outcome.status)
    /\ UNCHANGED <<username, userData, loading, error, hasSubmitted,
                   selectedTab, submitted, prevSubmitted>>
    /\ UNCHANGED <<statsVars, rarityVars, exportVars, renderVars, pageVars>>

\* the profile request fails: not ok, fetch rejected, or json() rejected
ProfileFailed(i, outcome) ==
    /\ i \in 1..Len(calls)
    /\ calls[i].pc = "profile"
    /\ outcome.kind # "ok"
    /\ error' = ErrorMessage(ProfileError(outcome))   \* catch: setError
    /\ loading' = FALSE                               \* finally
    /\ calls' = RemoveAt(calls, i)
    /\ ev' = Event("profile", outcome.kind, outcome.status)
    /\ UNCHANGED <<username, userData, hasSubmitted, selectedTab, submitted, prevSubmitted>>
    /\ UNCHANGED <<statsVars, rarityVars, exportVars, renderVars, pageVars>>

\* the user prop of a generator after setUserData(data): a new instance
\* mounts when there was none; an instance that stays mounted re-runs its
\* effect when user.login changed
AfterSetUserData(c, login) ==
    IF ~c.mounted THEN Mounted
    ELSE IF userData[1].login # login THEN [c EXCEPT !.pending = TRUE]
    ELSE c

\* the contributions request settles: data.contributions = contributions;
\* setUserData(data); finally setLoading(false)
ContributionsSettled(i, outcome) ==
    /\ i \in 1..Len(calls)
    /\ calls[i].pc = "contributions"
    /\ userData' = Some(GitHubUser(calls[i].cleanUsername, calls[i].data,
                                   fetchContributionData(outcome)))
    /\ loading' = FALSE
    /\ calls' = RemoveAt(calls, i)
    /\ card' = AfterSetUserData(card, calls[i].cleanUsername)
    /\ banner' = AfterSetUserData(banner, calls[i].cleanUsername)
    /\ ev' = Event("contributions",
                   IF outcome.kind = "ok" /\ BodyLacksDays(outcome.body)
                   THEN "nodays" ELSE outcome.kind,
                   outcome.status)
    /\ UNCHANGED <<username, error, hasSubmitted, selectedTab, submitted, prevSubmitted>>
    /\ UNCHANGED <<rarityVars, exportVars, renderVars, pageVars>>

\* DevemonCard: the repository request settles
CardReposSettled(outcome) ==
    /\ card.mounted /\ card.pending
    /\ card' = fetchExtendedStats(card, outcome, CardExtendedStats(outcome.repos))
    /\ ev' = Event("cardRepos", outcome.kind, 0)
    /\ UNCHANGED <<username, userData, loading, error, hasSubmitted,
                   selectedTab, calls, submitted,
                   prevSubmitted, banner>>
    /\ UNCHANGED <<rarityVars, exportVars, renderVars, pageVars>>

\* ReadmeBanner: the repository request settles
BannerReposSettled(outcome) ==
    /\ banner.mounted /\ banner.pending
    /\ banner' = fetchExtendedStats(banner, outcome, BannerExtendedStats(outcome.repos))
    /\ ev' = Event("bannerRepos", outcome.kind, 0)
    /\ UNCHANGED <<username, userData, loading, error, hasSubmitted,
                   selectedTab, calls, submitted,
                   prevSubmitted, card>>
    /\ UNCHANGED <<rarityVars, exportVars, renderVars, pageVars>>

\* ------------------------------------------------------------------------
\* GitHubWallpaperApp: wallpaper controls
\* ------------------------------------------------------------------------

\* keys of BACKGROUND_THEMES of GitHubWallpaperApp, the options of
\* wallpaper-theme-selector
AppThemes ==
    {"github-universe-green", "github-universe-blue", "universe-octocanvas",
     "github-dark", "bg-images", "bg-wallpaper", "custom"}

\* useState initial value of wallpaperTheme
DefaultWallpaperTheme == "github-universe-green"

\* ------------------------------------------------------------------------
\* GitHubWallpaperApp: tabs
\* ------------------------------------------------------------------------

\* tabs.length: Wallpaper, Devemon Card, README Banner
TabCount == 3

Keys == {"ArrowLeft", "ArrowRight", "Home", "a"}

\* a variant of the arrow keys that does not wrap around
newTabIndexNoWrap(currentTabIndex, key) ==
    IF key = "ArrowLeft" THEN currentTabIndex - 1
    ELSE IF key = "ArrowRight" THEN currentTabIndex + 1
    ELSE currentTabIndex

\* newTabIndex of handleKeyDown
newTabIndex(currentTabIndex, key) ==
    IF key = "ArrowLeft"
    THEN IF currentTabIndex = 0 THEN TabCount - 1 ELSE currentTabIndex - 1
    ELSE IF key = "ArrowRight"
    THEN IF currentTabIndex = TabCount - 1 THEN 0 ELSE currentTabIndex + 1
    ELSE currentTabIndex

\* tabElements[newTabIndex].focus() throws a TypeError when the index is
\* outside the array
FocusThrows(index) == index \notin 0..(TabCount - 1)

\* onClick={() => setSelectedTab(index)}; a mouse click gives the button the
\* focus in the browsers that focus buttons on click and leaves the focus
\* on the body in the others
ClickTab(index, focusesButton) ==
    /\ selectedTab' = index
    /\ activeElement' = IF focusesButton THEN index ELSE -1
    /\ ev' = Event("click", "none", index)
    /\ UNCHANGED <<username, userData, loading, error, hasSubmitted, calls,
                   submitted, prevSubmitted>>
    /\ UNCHANGED <<statsVars, rarityVars, exportVars, renderVars>>
    /\ UNCHANGED <<wallpaperTheme, avatar, downloads>>

\* the Tab key moves the focus into the tab list: only the selected tab has
\* tabIndex 0, the others have tabIndex -1
FocusTabList ==
    /\ activeElement = -1
    /\ activeElement' = selectedTab
    /\ ev' = Event("focus", "none", selectedTab)
    /\ UNCHANGED <<username, userData, loading, error, hasSubmitted,
                   selectedTab, calls, submitted, prevSubmitted>>
    /\ UNCHANGED <<statsVars, rarityVars, exportVars, renderVars>>
    /\ UNCHANGED <<wallpaperTheme, avatar, downloads>>

\* the focus leaves the tab list (Tab key, click into the text input)
BlurTabList ==
    /\ activeElement # -1
    /\ activeElement' = -1
    /\ ev' = Event("blur", "none", activeElement)
    /\ UNCHANGED <<username, userData, loading, error, hasSubmitted,
                   selectedTab, calls, submitted, prevSubmitted>>
    /\ UNCHANGED <<statsVars, rarityVars, exportVars, renderVars>>
    /\ UNCHANGED <<wallpaperTheme, avatar, downloads>>

\* handleKeyDown: a key event is dispatched to the focused element, so it
\* reaches the onKeyDown of a tab button when that button has the focus
handleKeyDown(key) ==
    /\ activeElement # -1
    /\ LET currentTabIndex == activeElement
           new == newTabIndex(currentTabIndex, key) IN
       IF new = currentTabIndex
       THEN /\ ev' = Event("keydown", key, currentTabIndex)
            /\ UNCHANGED <<selectedTab, activeElement>>
       ELSE IF FocusThrows(new)
       THEN /\ ev' = Event("keydown", "throw", currentTabIndex)
            /\ UNCHANGED <<selectedTab, activeElement>>
       ELSE /\ activeElement' = new        \* tabElements[newTabIndex].focus()
            /\ selectedTab' = new          \* setSelectedTab(newTabIndex)
            /\ ev' = Event("keydown", key, currentTabIndex)
    /\ UNCHANGED <<username, userData, loading, error, hasSubmitted, calls,
                   submitted, prevSubmitted>>
    /\ UNCHANGED <<statsVars, rarityVars, exportVars, renderVars>>
    /\ UNCHANGED <<wallpaperTheme, avatar, downloads>>

\* ------------------------------------------------------------------------
\* WallpaperGenerator: generateSVG
\* ------------------------------------------------------------------------

\* keys of BACKGROUND_THEMES of WallpaperGenerator
Themes == {"github-universe-green", "github-universe-blue",
           "universe-octocanvas", "github-dark"}

\* SIZES
SIZES(sizeKey) ==
    IF sizeKey = "desktop" THEN [width |-> 2560, height |-> 1440]
    ELSE IF sizeKey = "mobile" THEN [width |-> 1179, height |-> 2556]
    ELSE [width |-> 320, height |-> 240]

\* contributions.weeks.slice(-53) keeps this many weeks
WeeksShown == 53

\* a variant of the graph that keeps the last 52 weeks
recentWeeksOfLastYear(weeks) ==
    IF Len(weeks) <= 52 THEN weeks
    ELSE SubSeq(weeks, Len(weeks) - 52 + 1, Len(weeks))

\* contributions.weeks.slice(-53)
recentWeeks(weeks) ==
    IF Len(weeks) <= WeeksShown THEN weeks
    ELSE SubSeq(weeks, Len(weeks) - WeeksShown + 1, Len(weeks))

\* week.contributionDays?.length || 0; a week object without the list is a
\* record that has no contributionDays field
daysInWeek(week) ==
    IF "contributionDays" \in DOMAIN week THEN Len(week.contributionDays) ELSE 0

\* !day: an entry of the list that is undefined is the empty record
Undefined(day) == DOMAIN day = {}

\* fillColor and opacityAttr of a square; a contributionCount that is
\* undefined (Missing) fails every comparison
fillColor(theme, count) ==
    IF theme = "github-universe-blue"
    THEN IF count = 0 THEN [fill |-> "#FFFFFF", opacity |-> "0.5"]
         ELSE IF count >= 10 THEN [fill |-> "#0527FC", opacity |-> ""]
         ELSE IF count >= 5 THEN [fill |-> "#3094FF", opacity |-> ""]
         ELSE [fill |-> "#9EECFF", opacity |-> ""]
    ELSE IF count > 0
         THEN IF count >= 10 THEN [fill |-> "#5fed83", opacity |-> ""]
              ELSE IF count >= 5 THEN [fill |-> "#8cf2a6", opacity |-> ""]
              ELSE IF count >= 2 THEN [fill |-> "#bfffd1", opacity |-> ""]
              ELSE [fill |-> "#dcff96", opacity |-> ""]
         ELSE [fill |-> "#000000", opacity |-> "0.2"]

\* a variant that keeps the class attribute in the static version
ClassAttrAlways(isStatic, name) == name

\* ${isStatic ? "" : 'class="..."'}; "" is an element without class attribute
ClassAttr(isStatic, name) == IF isStatic THEN "" ELSE name

\* one <rect> of the graph; x and y are functions of weekIdx and dayIdx
ContributionSquare(weekIdx, dayIdx, day, theme, isStatic) ==
    [tag |-> "rect", class |-> ClassAttr(isStatic, "contribution-square"),
     weekIdx |-> weekIdx, dayIdx |-> dayIdx,
     fill |-> fillColor(theme, day.contributionCount).fill,
     opacity |-> fillColor(theme, day.contributionCount).opacity]

\* the inner loop: for (dayIdx = 0; dayIdx < daysInWeek; dayIdx++)
RECURSIVE WeekSquares(_, _, _, _, _)
WeekSquares(week, weekIdx, dayIdx, theme, isStatic) ==
    IF dayIdx >= daysInWeek(week) THEN <<>>
    ELSE LET day == week.contributionDays[dayIdx + 1] IN
         (IF Undefined(day) THEN <<>>
          ELSE <<ContributionSquare(weekIdx, dayIdx, day, theme, isStatic)>>)
         \o WeekSquares(week, weekIdx, dayIdx + 1, theme, isStatic)

\* the outer loop: for (weekIdx = 0; weekIdx < totalWeeks; weekIdx++)
RECURSIVE SeriesSquares(_, _, _, _)
SeriesSquares(weeks, weekIdx, theme, isStatic) ==
    IF weekIdx >= Len(weeks) THEN <<>>
    ELSE WeekSquares(weeks[weekIdx + 1], weekIdx, 0, theme, isStatic)
         \o SeriesSquares(weeks, weekIdx + 1, theme, isStatic)

\* contributionSquares
contributionSquares(contributions, theme, isStatic) ==
    IF contributions.present /\ Len(contributions.weeks) > 0
    THEN SeriesSquares(recentWeeks(contributions.weeks), 0, theme, isStatic)
    ELSE <<>>

\* the @keyframes of the <style> block, which only the animated version has
Keyframes(theme, isStatic) ==
    IF isStatic THEN {}
    ELSE IF theme = "universe-octocanvas" THEN {"fadeIn"}
    ELSE {"pulse", "glow", "float", "fadeIn"}

El(tag, class) == [tag |-> tag, class |-> class]

\* the elements of the template after <defs>, in document order, without the
\* decorative elements (which have no class attribute) and the squares; the
\* <g> around the squares and the caption under them are there when
\* contributionSquares is not empty
TemplateElements(theme, isStatic, hasSquares) ==
    IF theme = "universe-octocanvas"
    THEN <<El("rect", ""), El("rect", ""),
           El("image", ClassAttr(isStatic, "avatar-universe")),
           El("circle", ClassAttr(isStatic, "avatar-universe")),
           El("text", ClassAttr(isStatic, "username-universe")),
           El("text", ClassAttr(isStatic, "username-universe")),
           El("text", ClassAttr(isStatic, "stats-universe")),
           El("text", ClassAttr(isStatic, "stats-universe")),
           El("text", ClassAttr(isStatic, "stats-universe")),
           El("text", ClassAttr(isStatic, "stats-universe")),
           El("text", ClassAttr(isStatic, "stats-universe")),
           El("text", ClassAttr(isStatic, "stats-universe"))>>
         \o (IF hasSquares THEN <<El("g", "")>> ELSE <<>>)
    ELSE <<El("rect", ""), El("rect", ""), El("image", ""),
           El("circle", ClassAttr(isStatic, "avatar-border")),
           El("text", ClassAttr(isStatic, "username")),
           El("text", ClassAttr(isStatic, "username")),
           El("text", ClassAttr(isStatic, "stats"))>>
         \o (IF hasSquares THEN <<El("text", "")>> ELSE <<>>)
         \o <<El("text", "")>>

\* the grid of generateDecorativeElements
gridCols == 10
gridRows == 8

\* elementTypes, in array order
elementTypes == <<"sun", "plant", "cloud", "circle", "box">>

\* the cells the two loops visit, row by row, without the centre area
\* (cols 3-6, rows 2-5) that is skipped for the profile card
DecorativeCells ==
    SelectSeq([k \in 1..(gridRows * gridCols) |->
                  [row |-> (k - 1) \div gridCols, col |-> (k - 1) % gridCols]],
              LAMBDA c : ~(c.col >= 3 /\ c.col <= 6 /\ c.row >= 2 /\ c.row <= 5))

\* elementTypes[(col + row * 2) % elementTypes.length].type
ElementTypeAt(c) == elementTypes[((c.col + c.row * 2) % Len(elementTypes)) + 1]

\* sunIcon and greenCircle call Math.random() for their gradient id
CallsMathRandom(type) == type \in {"sun", "circle"}

\* how many Math.random() calls the loops have made up to and with cell i
RandomCallsUpTo(i) ==
    Cardinality({j \in 1..i : CallsMathRandom(ElementTypeAt(DecorativeCells[j]))})

\* Math.random() calls of one generateDecorativeElements call
RandomCallsPerRender == RandomCallsUpTo(Len(DecorativeCells))

\* `sun_gradient_${Math.random().toString(36).substr(2, 9)}` and
\* `green_circle_gradient_${...}`: the prefix and the value drawn; <<>> for
\* the element types without gradient
GradientId(type, i, random) ==
    IF CallsMathRandom(type) THEN <<type, random[RandomCallsUpTo(i)]>> ELSE <<>>

\* generateDecorativeElements: one element per visited cell, in loop order;
\* random is the sequence of values Math.random() returns during the call
generateDecorativeElements(random) ==
    [i \in 1..Len(DecorativeCells) |->
        LET c == DecorativeCells[i]
            type == ElementTypeAt(c) IN
        [type |-> type, col |-> c.col, row |-> c.row,
         gradientId |-> GradientId(type, i, random)]]

\* what a call reads from outside its arguments and props: the values of
\* Math.random() and the year of new Date()
Env(random, year) == [random |-> random, year |-> year]

\* `${lastYear} - ${currentYear}`
contributionYearText(year) == <<year - 1, year>>

\* the exception of reading a property of undefined
TypeError == [thrown |-> "TypeError"]

\* generateSVG(width, height, isStatic) for the component's user and theme.
\* theme = BACKGROUND_THEMES[selectedTheme] is undefined for a key the
\* object does not have, and theme.gradient.stops then throws.
\* The Universe theme embeds the decorative elements; the other themes
\* print the year range in the caption under the graph.
generateSVG(contributions, theme, width, height, isStatic, env) ==
    LET squares == contributionSquares(contributions, theme, isStatic) IN
    IF theme \notin Themes THEN TypeError
    ELSE
    [width |-> width, height |-> height, isStatic |-> isStatic,
     keyframes |-> Keyframes(theme, isStatic),
     elements |-> TemplateElements(theme, isStatic, squares # <<>>),
     squares |-> squares,
     decorative |-> IF theme = "universe-octocanvas"
                    THEN generateDecorativeElements(env.random) ELSE <<>>,
     caption |-> IF theme # "universe-octocanvas" /\ squares # <<>>
                 THEN contributionYearText(env.year) ELSE <<>>]

\* previewSVG = isMobile ? generateSVG(585, 1266) : generateSVG(1280, 720)
previewSVG(contributions, theme, isMobile, env) ==
    IF isMobile THEN generateSVG(contributions, theme, 585, 1266, FALSE, env)
    ELSE generateSVG(contributions, theme, 1280, 720, FALSE, env)

\* ------------------------------------------------------------------------
\* ReadmeBanner: art generators
\* ------------------------------------------------------------------------

\* const width = 60 (characters wide), const height = 40 (characters tall)
asciiWidth == 60
asciiHeight == 40

\* a character is its UTF-16 code unit
Space == 32
Newline == 10

\* the glyph gradient, 70 entries from " " (32) to "$" (36)
asciiChars ==
    <<
      32, 46, 39, 96, 94, 34, 44, 58, 59, 73,
      108, 33, 105, 62, 60, 126, 43, 95, 45, 63,
      93, 91, 125, 123, 49, 41, 40, 124, 92, 47,
      116, 102, 106, 114, 120, 110, 117, 118, 99, 122,
      88, 89, 85, 74, 67, 76, 81, 48, 79, 90,
      109, 119, 113, 112, 100, 98, 107, 104, 97, 111,
      42, 35, 77, 87, 38, 56, 37, 66, 64, 36
    >>

\* an RGBA entry of ImageData.data, each channel a byte
Pixel(r, g, b, a) == [r |-> r, g |-> g, b |-> b, a |-> a]

\* brightness values are counted in units of 1/2000
BrightnessUnit == 2000

\* the colours whose exact weighted sum is 85 or 170, where brightness / 255
\* * 69 is the integer 23 or 46, and whose sum in double arithmetic falls
\* just below it (84.99999999999999, 169.99999999999997): all 35 of them.
\* For every other colour the rounding of the doubles neither changes the
\* glyph index nor the order of two brightness values that differ.
RoundedBelow ==
    {
      <<6, 140, 9>>, <<13, 249, 175>>, <<17, 239, 216>>, <<21, 131, 16>>,
      <<36, 122, 23>>, <<37, 91, 180>>, <<43, 231, 189>>, <<46, 252, 73>>,
      <<68, 254, 5>>, <<69, 223, 162>>, <<72, 244, 46>>, <<84, 214, 169>>,
      <<98, 236, 19>>, <<99, 205, 176>>, <<114, 196, 183>>, <<129, 187, 190>>,
      <<134, 48, 147>>, <<144, 178, 197>>, <<149, 39, 154>>, <<159, 169, 204>>,
      <<163, 61, 4>>, <<166, 180, 129>>, <<174, 160, 211>>, <<175, 31, 127>>,
      <<181, 171, 136>>, <<190, 22, 134>>, <<196, 162, 143>>, <<205, 13, 141>>,
      <<211, 153, 150>>, <<223, 25, 32>>, <<226, 144, 157>>, <<238, 16, 39>>,
      <<241, 135, 164>>, <<249, 17, 5>>, <<253, 7, 46>>
    }

\* a variant with the red channel inverted
brightnessInverted(r, g, b) ==
    2 * (299 * (255 - r) + 587 * g + 114 * b)
    - (IF <<r, g, b>> \in RoundedBelow THEN 1 ELSE 0)

\* 0.299 * r + 0.587 * g + 0.114 * b as the double arithmetic yields it: the
\* exact sum, one half unit less where the double falls below it
\* (generateAsciiArt's brightness and generateGrayscaleArt's gray)
brightness(r, g, b) ==
    2 * (299 * r + 587 * g + 114 * b)
    - (IF <<r, g, b>> \in RoundedBelow THEN 1 ELSE 0)

\* a variant of the index that rounds to the nearest glyph
charIndexRounded(r, g, b) ==
    (2 * brightness(r, g, b) * (Len(asciiChars) - 1) + 255 * BrightnessUnit)
        \div (2 * 255 * BrightnessUnit)

\* Math.floor((brightness / 255) * (asciiChars.length - 1)), zero-based
charIndex(r, g, b) ==
    (brightness(r, g, b) * (Len(asciiChars) - 1)) \div (255 * BrightnessUnit)

\* the character appended for one pixel
Glyph(p) ==
    IF p.a < 128 THEN Space
    ELSE asciiChars[charIndex(p.r, p.g, p.b) + 1]

\* the canvas after drawImage(img, 0, 0, width, height): either one colour
\* everywhere or two colours in a checkerboard
PixelAt(image, x, y) ==
    IF image.kind = "uniform" \/ (x + y) % 2 = 0 THEN image.p ELSE image.q

\* a variant of the row loop that appends no newline
AsciiRowWithoutNewline(image, y) ==
    [x \in 1..asciiWidth |-> Glyph(PixelAt(image, x - 1, y))]

\* the inner loop over x, and the newline appended after it
AsciiRow(image, y) ==
    [x \in 1..asciiWidth |-> Glyph(PixelAt(image, x - 1, y))] \o <<Newline>>

\* the outer loop over y
RECURSIVE AsciiRows(_, _)
AsciiRows(image, y) ==
    IF y >= asciiHeight THEN <<>>
    ELSE AsciiRow(image, y) \o AsciiRows(image, y + 1)

\* how the avatar request of a generator ends: the image loads and the
\* canvas has a 2d context, it loads and there is none, or it fails
DecodeOutcomes == {"load", "noctx", "error"}

\* the string generateAsciiArt resolves to, as a sequence of characters;
\* <<>> is the empty string
generateAsciiArt(image, outcome) ==
    IF outcome = "load" THEN AsciiRows(image, 0) ELSE <<>>

\* the four generators loadArt awaits, in the order of its Promise.all
ArtGenerators == <<"ascii", "pixel", "grayscale", "color">>

\* values of the artType prop
ArtTypes == {"none", "ascii", "pixel", "grayscale", "color"}

\* canvas.toDataURL(): a string that starts with "data:"
DataUrl == <<100, 97, 116, 97, 58>>

\* a promise that has not settled
PendingPromise == [state |-> "pending", outcome |-> "none", value |-> <<>>]

\* a variant of the generators whose onerror handler rejects
ArtPromiseRejecting(g, outcome, image) ==
    IF outcome = "error"
    THEN [state |-> "rejected", outcome |-> outcome, value |-> <<>>]
    ELSE [state |-> "resolved", outcome |-> outcome,
          value |-> IF outcome # "load" THEN <<>>
                    ELSE IF g = "ascii" THEN generateAsciiArt(image, outcome)
                    ELSE DataUrl]

\* the promise of generateAsciiArt / generatePixelArt / generateGrayscaleArt
\* / generateColorArt after img.onload or img.onerror has run: resolve("")
\* without a context and on error, else the art
ArtPromise(g, outcome, image) ==
    [state |-> "resolved", outcome |-> outcome,
     value |-> IF outcome # "load" THEN <<>>
               ELSE IF g = "ascii" THEN generateAsciiArt(image, outcome)
               ELSE DataUrl]

\* Promise.all: rejected once one input is rejected, resolved when all are
PromiseAll(promises) ==
    IF \E i \in DOMAIN promises : promises[i].state = "rejected" THEN "rejected"
    ELSE IF \A i \in DOMAIN promises : promises[i].state = "resolved"
         THEN "resolved"
         ELSE "pending"

\* ReadmeBanner after its first render: the four art states are "", the
\* effect has called loadArt, whose generators wait for their images
BannerArt(artType, image) ==
    [pc |-> "loading", artType |-> artType, image |-> image,
     asciiArt |-> <<>>, pixelArtData |-> <<>>, grayscaleArtData |-> <<>>,
     colorArtData |-> <<>>,
     promises |-> [i \in 1..Len(ArtGenerators) |-> PendingPromise]]

\* the art state that belongs to an art type
ArtStateOf(a, t) ==
    IF t = "ascii" THEN a.asciiArt
    ELSE IF t = "pixel" THEN a.pixelArtData
    ELSE IF t = "grayscale" THEN a.grayscaleArtData
    ELSE IF t = "color" THEN a.colorArtData
    ELSE <<>>

\* {artType === "ascii" && asciiArt && (...)} and its three siblings
ArtColumnShown(a, t) == a.artType = t /\ ArtStateOf(a, t) # <<>>

\* the parent passes another artType
SelectArtType(t) ==
    /\ art.pc \in {"loading", "done"}
    /\ t # art.artType
    /\ art' = [art EXCEPT !.artType = t]
    /\ UNCHANGED <<svg, ascii>>
    /\ UNCHANGED <<appVars, statsVars, rarityVars, exportVars, pageVars>>

\* img.onload or img.onerror of the i-th generator runs
GeneratorSettles(i, outcome) ==
    /\ art.pc = "loading"
    /\ art.promises[i].state = "pending"
    /\ art' = [art EXCEPT !.promises[i] =
                              ArtPromise(ArtGenerators[i], outcome, art.image)]
    /\ UNCHANGED <<svg, ascii>>
    /\ UNCHANGED <<appVars, statsVars, rarityVars, exportVars, pageVars>>

\* the await of Promise.all in loadArt ends: the four setters run, or
\* loadArt rejects without setting anything
LoadArtResumes ==
    /\ art.pc = "loading"
    /\ PromiseAll(art.promises) # "pending"
    /\ art' = IF PromiseAll(art.promises) = "resolved"
              THEN [art EXCEPT !.pc = "done",
                               !.asciiArt = art.promises[1].value,
                               !.pixelArtData = art.promises[2].value,
                               !.grayscaleArtData = art.promises[3].value,
                               !.colorArtData = art.promises[4].value]
              ELSE [art EXCEPT !.pc = "rejected"]
    /\ UNCHANGED <<svg, ascii>>
    /\ UNCHANGED <<appVars, statsVars, rarityVars, exportVars, pageVars>>

\* ------------------------------------------------------------------------
\* Export and share handlers of the three generators
\* ------------------------------------------------------------------------

Platforms == {"twitter", "bluesky", "threads", "instagram"}
SizeKeys == {"desktop", "mobile", "small"}
CardFormats == {"card", "badge"}

NoSize == "null"

\* no handler is running
IdleRun ==
    [generator |-> "none", handler |-> "none", arg |-> "none", pc |-> "idle",
     cause |-> "none", alerts |-> 0, opened |-> 0, downloaded |-> 0,
     timer |-> FALSE,
     \* has navigator.clipboard.write resolved, and how many alerts had been
     \* shown when window.open was called last (-1: not called)
     written |-> FALSE, openedAfter |-> -1,
     \* copyToClipboard's wait for the SVG image: the promise, the 10 s
     \* timer, the Image, the event that settled the promise and how often
     \* the code after the await has been entered
     wait |-> "none", loadTimer |-> "none", img |-> "none",
     first |-> "none", resumed |-> 0,
     \* WallpaperGenerator props of the run (selectedTheme, user.contributions),
     \* the SVG string it generated and the canvas it rasterizes onto;
     \* <<>> before they exist
     theme |-> "none", contributions |-> Absent, svg |-> <<>>, canvas |-> <<>>]

\* a handler has been called: one run, its position and what it has shown
\* (alerts), opened (window.open) and saved (link.click) so far
StartRun(generator, handler, arg, pc) ==
    [IdleRun EXCEPT !.generator = generator, !.handler = handler,
                    !.arg = arg, !.pc = pc]

CanStart == run.pc \in {"idle", "done"} /\ ~run.timer

\* the run ends because of a failure of the given cause; notify says
\* whether the catch block calls alert
Failed(r, cause, notify) ==
    [r EXCEPT !.pc = "done", !.cause = cause,
              !.alerts = IF notify THEN @ + 1 ELSE @]

\* window.open(...)
OpenWindow(r) == [r EXCEPT !.opened = @ + 1, !.openedAfter = r.alerts]

\* a variant of DownloadCatch in which the download handlers alert as well
DownloadCatchAlerts(generator) == TRUE

\* does the catch block of the generator's download handler alert?
\* downloadCard and downloadBanner only console.error
DownloadCatch(generator) == generator = "wallpaper"

\* does the catch block around the rasterizer alert?
RasterCatchNotifies(r) ==
    IF r.handler = "download" THEN DownloadCatch(r.generator) ELSE TRUE

\* DevemonCard.downloadCard / share handlers, ReadmeBanner.downloadBanner /
\* share handlers, up to the await of html2canvas; attached is whether the
\* element ref is set (cardRef is unset while the card shows its loading text)
StartCanvasExport(generator, handler, arg, attached) ==
    /\ CanStart
    /\ generator \in {"card", "banner"}
    /\ \/ handler = "download" /\ generator = "card" /\ arg \in CardFormats
       \/ handler = "download" /\ generator = "banner" /\ arg = "banner"
       \/ handler = "share" /\ arg \in Platforms
    /\ generator = "banner" => attached
    /\ run' = IF attached
              THEN StartRun(generator, handler, arg, "raster")
              ELSE StartRun(generator, handler, arg, "done")   \* return
    /\ UNCHANGED downloadingSize
    /\ UNCHANGED <<appVars, statsVars, rarityVars, renderVars, pageVars>>

\* a variant of html2canvas that ignores the scale option
html2canvasUnscaled(element, scale) ==
    [width |-> element.width, height |-> element.height]

\* the canvas html2canvas(element, { scale }) resolves to: the element's box
\* times scale
html2canvas(element, scale) ==
    [width |-> element.width * scale, height |-> element.height * scale]

\* the element behind standardBannerRef: width 1280px, height 320px
standardBannerRef == [width |-> 1280, height |-> 320]

\* the canvas of a run whose html2canvas call succeeded; the card and badge
\* elements get their size from a style sheet, their canvas is left open
RasterCanvas(r) ==
    IF r.generator = "banner" THEN <<html2canvas(standardBannerRef, 2)>>
    ELSE <<>>

\* html2canvas (or its dynamic import) settles
RasterSettled(ok) ==
    /\ run.pc = "raster"
    /\ run' = IF ok
              THEN [run EXCEPT !.pc = "toBlob",     \* canvas.toBlob(callback)
                               !.canvas = RasterCanvas(run)]
              ELSE Failed(run, "raster", RasterCatchNotifies(run))
    /\ UNCHANGED downloadingSize
    /\ UNCHANGED <<appVars, statsVars, rarityVars, renderVars, pageVars>>

\* the toBlob callback of a card or banner handler runs
CanvasBlobCallback(hasBlob) ==
    /\ run.pc = "toBlob"
    /\ run.generator \in {"card", "banner"}
    /\ run' = IF ~hasBlob
              THEN Failed(run, "noblob", FALSE)     \* if (blob) {...} / return
              ELSE IF run.handler = "download"
                   THEN [run EXCEPT !.pc = "done", !.downloaded = @ + 1]
                   ELSE [run EXCEPT !.pc = "clipboard"]
    /\ UNCHANGED downloadingSize
    /\ UNCHANGED <<appVars, statsVars, rarityVars, renderVars, pageVars>>

\* navigator.clipboard.write of a card or banner share settles
CanvasClipboardSettled(ok) ==
    /\ run.pc = "clipboard"
    /\ run.generator \in {"card", "banner"}
    /\ run' = IF ok
              THEN IF run.arg = "instagram"
                   THEN [run EXCEPT !.pc = "done", !.written = TRUE,
                                    !.alerts = @ + 1, !.timer = TRUE]
                   ELSE OpenWindow([run EXCEPT !.pc = "done",
                                               !.written = TRUE,
                                               !.alerts = @ + 1])
              ELSE Failed(run, "clipboard", TRUE)
    /\ UNCHANGED downloadingSize
    /\ UNCHANGED <<appVars, statsVars, rarityVars, renderVars, pageVars>>

\* copyToClipboard up to the await of the image load: throws when the avatar
\* is not loaded or the canvas has no 2d context
CopyToClipboardStart(avatarLoaded, hasContext) ==
    IF ~avatarLoaded THEN "throw"
    ELSE IF ~hasContext THEN "throw"
    ELSE "image"

\* the props of the WallpaperGenerator the handler belongs to
WithProps(r, theme, contributions) ==
    [r EXCEPT !.theme = theme, !.contributions = contributions]

\* a variant of copyToClipboard without the check of the avatar
PrepareCanvasUnchecked(r, sizeKey, avatarLoaded, env) ==
    [r EXCEPT !.svg = <<generateSVG(r.contributions, r.theme,
                                    SIZES(sizeKey).width,
                                    SIZES(sizeKey).height, TRUE, env)>>,
              !.canvas = <<SIZES(sizeKey)>>]

\* copyToClipboard(sizeKey) once the avatar is there: generateSVG(size.width,
\* size.height, true), canvas.width = size.width, canvas.height = size.height
PrepareCanvas(r, sizeKey, avatarLoaded, env) ==
    IF ~avatarLoaded THEN r
    ELSE [r EXCEPT !.svg = <<generateSVG(r.contributions, r.theme,
                                         SIZES(sizeKey).width,
                                         SIZES(sizeKey).height, TRUE, env)>>,
                   !.canvas = <<SIZES(sizeKey)>>]

\* new Promise((resolve, reject) => { setTimeout(...); img.onload = ...;
\* img.onerror = ...; img.src = dataUrl })
BeginImageWait(r) ==
    [r EXCEPT !.wait = "pending", !.loadTimer = "armed", !.img = "loading"]

\* a variant of the share handlers whose catch block only alerts
WallpaperFailedWithoutOpen(r, cause) ==
    IF r.handler = "download"
    THEN Failed(r, cause, DownloadCatch("wallpaper"))
    ELSE IF r.arg = "instagram"
         THEN [Failed(r, cause, TRUE) EXCEPT !.timer = TRUE]
         ELSE Failed(r, cause, TRUE)

\* the catch and finally blocks of the wallpaper handlers: downloadWallpaper
\* alerts; the share handlers alert and then open the share page (Instagram:
\* after 1.5 s)
WallpaperFailed(r, cause) ==
    IF r.handler = "download"
    THEN Failed(r, cause, DownloadCatch("wallpaper"))
    ELSE IF r.arg = "instagram"
         THEN [Failed(r, cause, TRUE) EXCEPT !.timer = TRUE]
         ELSE OpenWindow(Failed(r, cause, TRUE))

\* WallpaperGenerator.downloadWallpaper up to its first await
StartDownloadWallpaper(sizeKey, theme, contributions, avatarLoaded, hasContext, env) ==
    /\ CanStart
    /\ UNCHANGED <<appVars, statsVars, rarityVars, renderVars, pageVars>>
    /\ LET r == PrepareCanvas(WithProps(StartRun("wallpaper", "download",
                                                 sizeKey, "image"),
                                        theme, contributions),
                              sizeKey, avatarLoaded, env) IN
       IF CopyToClipboardStart(avatarLoaded, hasContext) = "throw"
       THEN /\ run' = Failed(r, "raster", DownloadCatch("wallpaper"))
            /\ downloadingSize' = NoSize          \* finally
       ELSE /\ run' = BeginImageWait(r)
            /\ downloadingSize' = sizeKey

\* WallpaperGenerator share handlers up to their first await
StartShareWallpaper(platform, theme, contributions, avatarLoaded, hasContext, env) ==
    /\ CanStart
    /\ LET r == PrepareCanvas(WithProps(StartRun("wallpaper", "share",
                                                 platform, "image"),
                                        theme, contributions),
                              "desktop", avatarLoaded, env) IN
       IF ~avatarLoaded
       THEN run' = [r EXCEPT !.pc = "done", !.alerts = @ + 1]  \* still loading
       ELSE IF CopyToClipboardStart(avatarLoaded, hasContext) = "throw"
       THEN run' = WallpaperFailed(r, "raster")
       ELSE run' = BeginImageWait(r)
    /\ UNCHANGED downloadingSize
    /\ UNCHANGED <<appVars, statsVars, rarityVars, renderVars, pageVars>>

ImageOutcomes == {"load", "error", "timeout"}

\* a variant of the image handlers without clearTimeout
TimerAfterNoClear(outcome, t) == IF outcome = "timeout" THEN "fired" ELSE t

\* the 10 s timer after a handler has run: img.onload and img.onerror call
\* clearTimeout(timeout); the timer callback has fired
TimerAfter(outcome, t) ==
    IF outcome = "timeout" THEN "fired"
    ELSE IF t = "armed" THEN "cleared" ELSE t

\* the Image after a handler has run
ImageAfter(outcome, i) ==
    IF outcome = "load" THEN "loaded"
    ELSE IF outcome = "error" THEN "errored"
    ELSE i

\* resolve() / reject(): a settled promise stays as it is
Settle(w, outcome) ==
    IF w # "pending" THEN w
    ELSE IF outcome = "load" THEN "resolved" ELSE "rejected"

\* can the browser deliver this event?  load and error while the Image is
\* loading, the timer callback while the timer is armed
CanDeliver(r, outcome) ==
    IF outcome = "timeout" THEN r.loadTimer = "armed" ELSE r.img = "loading"

\* img.onload / img.onerror / the timer callback
ImageHandler(r, outcome) ==
    [r EXCEPT !.wait = Settle(@, outcome),
              !.loadTimer = TimerAfter(outcome, @),
              !.img = ImageAfter(outcome, @),
              !.first = IF r.wait = "pending" THEN outcome ELSE @,
              \* the await continues once, when the promise settles
              !.resumed = IF r.wait = "pending" THEN @ + 1 ELSE @]

\* copyToClipboard: the wait for the SVG image settles; the code after the
\* await runs: drawImage and toBlob after a load, the caller's catch and
\* finally after a rejection
WallpaperImageSettled(outcome) ==
    /\ run.pc = "image"
    /\ UNCHANGED <<appVars, statsVars, rarityVars, renderVars, pageVars>>
    /\ run.generator = "wallpaper"
    /\ CanDeliver(run, outcome)
    /\ LET r == ImageHandler(run, outcome) IN
       IF outcome = "load"
       THEN /\ run' = [r EXCEPT !.pc = "toBlob"]
            /\ UNCHANGED downloadingSize
       ELSE /\ run' = WallpaperFailed(r, "raster")
            /\ downloadingSize' = IF run.handler = "download" THEN NoSize
                                  ELSE downloadingSize

\* an event of the Image or the timer that arrives after the promise has
\* settled: the handler runs, resolve / reject have no effect
WallpaperLateImageEvent(outcome) ==
    /\ run.generator = "wallpaper"
    /\ run.wait \in {"resolved", "rejected"}
    /\ CanDeliver(run, outcome)
    /\ run' = ImageHandler(run, outcome)
    /\ UNCHANGED downloadingSize
    /\ UNCHANGED <<appVars, statsVars, rarityVars, renderVars, pageVars>>

\* copyToClipboard: the toBlob callback runs
WallpaperBlobCallback(hasBlob) ==
    /\ run.pc = "toBlob"
    /\ UNCHANGED <<appVars, statsVars, rarityVars, renderVars, pageVars>>
    /\ run.generator = "wallpaper"
    /\ IF ~hasBlob
       THEN /\ run' = WallpaperFailed(run, "noblob")
            /\ downloadingSize' = IF run.handler = "download" THEN NoSize
                                  ELSE downloadingSize
       ELSE IF run.handler = "download"
       THEN /\ run' = [run EXCEPT !.pc = "done", !.downloaded = @ + 1]
            /\ downloadingSize' = NoSize
       ELSE /\ run' = [run EXCEPT !.pc = "clipboard"]
            /\ UNCHANGED downloadingSize

\* navigator.clipboard.write of a wallpaper share settles
WallpaperClipboardSettled(ok) ==
    /\ run.pc = "clipboard"
    /\ run.generator = "wallpaper"
    /\ run' = IF ok
              THEN IF run.arg = "instagram"
                   THEN [run EXCEPT !.pc = "done", !.written = TRUE,
                                    !.alerts = @ + 1, !.timer = TRUE]
                   ELSE OpenWindow([run EXCEPT !.pc = "done",
                                               !.written = TRUE,
                                               !.alerts = @ + 1])
              ELSE WallpaperFailed(run, "clipboard")
    /\ UNCHANGED downloadingSize
    /\ UNCHANGED <<appVars, statsVars, rarityVars, renderVars, pageVars>>

\* setTimeout(() => window.open("https://www.instagram.com/", ...), 1500)
InstagramFallbackFires ==
    /\ run.timer
    /\ run' = OpenWindow([run EXCEPT !.timer = FALSE])
    /\ UNCHANGED downloadingSize
    /\ UNCHANGED <<appVars, statsVars, rarityVars, renderVars, pageVars>>

\* ------------------------------------------------------------------------
\* WallpaperGenerator: convertAvatarToBase64
\* ------------------------------------------------------------------------

\* user.avatar_url
AvatarUrl == "https://avatars.githubusercontent.com/u/1?v=4"

\* reader.result after a successful readAsDataURL
AvatarDataUrl == "data:image/jpeg;base64,/9j/4AAQ"

\* reader.result after a failed read: null
ReaderNull == "null"

\* !value for a string or null
Falsy(value) == value \in {"", ReaderNull}

\* useState("") of avatarBase64 and useRef("") of avatarBase64Ref, no
\* conversion running
NoAvatar == [pc |-> "idle", avatarBase64 |-> "", avatarBase64Ref |-> ""]

\* the component has mounted and its effect has called fetch(user.avatar_url)
AvatarFetching == [NoAvatar EXCEPT !.pc = "fetch"]

\* setAvatarBase64(value); avatarBase64Ref.current = value
SetAvatar(a, value) ==
    [a EXCEPT !.pc = "done", !.avatarBase64 = value, !.avatarBase64Ref = value]

\* the catch block: fall back to the original URL
ConvertFailed(a) == SetAvatar(a, AvatarUrl)

\* if (!avatarBase64) return <p>Loading avatar...</p>
LoadingAvatar == Falsy(avatar.avatarBase64)

\* !currentAvatarBase64 of the handlers, negated
AvatarLoaded == ~Falsy(avatar.avatarBase64Ref)

\* await fetch(user.avatar_url) settles; a response of any status resolves
AvatarFetchSettled(ok) ==
    /\ avatar.pc = "fetch"
    /\ avatar' = IF ok THEN [avatar EXCEPT !.pc = "blob"] ELSE ConvertFailed(avatar)
    /\ UNCHANGED <<activeElement, wallpaperTheme, downloads>>
    /\ UNCHANGED <<appVars, statsVars, rarityVars, exportVars, renderVars>>

\* await response.blob() settles; then reader.readAsDataURL(blob)
AvatarBlobSettled(ok) ==
    /\ avatar.pc = "blob"
    /\ avatar' = IF ok THEN [avatar EXCEPT !.pc = "read"] ELSE ConvertFailed(avatar)
    /\ UNCHANGED <<activeElement, wallpaperTheme, downloads>>
    /\ UNCHANGED <<appVars, statsVars, rarityVars, exportVars, renderVars>>

\* reader.onloadend: fired when the read has ended, with the data URL in
\* reader.result after a load and null after an error
AvatarReaderLoadEnd(ok) ==
    /\ avatar.pc = "read"
    /\ avatar' = SetAvatar(avatar, IF ok THEN AvatarDataUrl ELSE ReaderNull)
    /\ UNCHANGED <<activeElement, wallpaperTheme, downloads>>
    /\ UNCHANGED <<appVars, statsVars, rarityVars, exportVars, renderVars>>

\* ------------------------------------------------------------------------
\* WallpaperGenerator: overlapping downloadWallpaper calls
\* ------------------------------------------------------------------------

\* most downloadWallpaper calls the model lets be outstanding at once; the
\* three download buttons stay enabled while a download runs
MaxDownloads == 2

\* downloadWallpaper(sizeKey) up to the await inside copyToClipboard:
\* setDownloadingSize(sizeKey); a throw of copyToClipboard goes through
\* catch (alert) and finally (setDownloadingSize(null))
downloadWallpaper(sizeKey, hasContext) ==
    /\ Len(downloads) < MaxDownloads
    /\ IF CopyToClipboardStart(AvatarLoaded, hasContext) = "throw"
       THEN /\ downloadingSize' = NoSize
            /\ UNCHANGED downloads
            /\ ev' = Event("download", "throw", 0)
       ELSE /\ downloadingSize' = sizeKey
            /\ downloads' = Append(downloads, [sizeKey |-> sizeKey, pc |-> "image"])
            /\ ev' = Event("download", "started", 0)
    /\ UNCHANGED <<username, userData, loading, error, hasSubmitted,
                   selectedTab, calls, submitted, prevSubmitted>>
    /\ UNCHANGED <<statsVars, rarityVars, renderVars, run>>
    /\ UNCHANGED <<activeElement, wallpaperTheme, avatar>>

\* the image wait of call i settles: drawImage and toBlob after a load;
\* catch and finally after an error or the timeout
DownloadImageSettled(i, outcome) ==
    /\ i \in 1..Len(downloads)
    /\ downloads[i].pc = "image"
    /\ IF outcome = "load"
       THEN /\ downloads' = [downloads EXCEPT ![i].pc = "toBlob"]
            /\ UNCHANGED downloadingSize
       ELSE /\ downloads' = RemoveAt(downloads, i)
            /\ downloadingSize' = NoSize                 \* finally
    /\ ev' = Event("downloadImage", outcome, i)
    /\ UNCHANGED <<username, userData, loading, error, hasSubmitted,
                   selectedTab, calls, submitted, prevSubmitted>>
    /\ UNCHANGED <<statsVars, rarityVars, renderVars, run>>
    /\ UNCHANGED <<activeElement, wallpaperTheme, avatar>>

\* the toBlob callback of call i runs: link.click() with a blob, catch
\* without one; finally setDownloadingSize(null)
DownloadBlobCallback(i, hasBlob) ==
    /\ i \in 1..Len(downloads)
    /\ downloads[i].pc = "toBlob"
    /\ downloads' = RemoveAt(downloads, i)
    /\ downloadingSize' = NoSize
    /\ ev' = Event("downloadBlob", IF hasBlob THEN "saved" ELSE "noblob", i)
    /\ UNCHANGED <<username, userData, loading, error, hasSubmitted,
                   selectedTab, calls, submitted, prevSubmitted>>
    /\ UNCHANGED <<statsVars, rarityVars, renderVars, run>>
    /\ UNCHANGED <<activeElement, wallpaperTheme, avatar>>

\* ------------------------------------------------------------------------
\* Specifications
\* ------------------------------------------------------------------------

\* ---- inputs of the rarity specification
FollowerCounts == {0, 10, 50, 400}
RepoCounts == {0, 1}
ContributionTotals == {0, 999, 1000, 2995}
StarCounts == {0, 100, 1400}
ForkCounts == {0, 1}

ContributionInputs ==
    {Absent} \cup {ContributionData(c, <<>>) : c \in ContributionTotals}

CardInputs ==
    [user : [followers : FollowerCounts, public_repos : RepoCounts,
             contributions : ContributionInputs],
     extendedStats : [totalStars : StarCounts, totalForks : ForkCounts,
                      topLanguages : {<<>>}]]

ExportIdle == run = IdleRun /\ downloadingSize = NoSize

\* the page after load: the focus is on the body
PageIdle ==
    /\ activeElement = -1
    /\ wallpaperTheme = DefaultWallpaperTheme
    /\ avatar = NoAvatar
    /\ downloads = <<>>

ZeroCard ==
    [user |-> [followers |-> 0, public_repos |-> 0, contributions |-> Absent],
     extendedStats |-> ZeroStats]

\* generateSVG has not been called
SvgIdle ==
    svg = [pc |-> "idle", contributions |-> Absent, theme |-> "github-dark",
           site |-> "preview", isMobile |-> FALSE, out |-> <<>>,
           again |-> <<>>]

\* a canvas of one colour
Uniform(p) == [kind |-> "uniform", p |-> p, q |-> p]

\* a canvas of two colours
Checker(p, q) == [kind |-> "checker", p |-> p, q |-> q]

\* generateAsciiArt has not been called
AsciiIdle ==
    ascii = [pc |-> "idle", image |-> Uniform(Pixel(0, 0, 0, 0)),
             outcome |-> "load", out |-> <<>>]

\* no banner is mounted
ArtIdle == art = [BannerArt("none", Uniform(Pixel(0, 0, 0, 0))) EXCEPT !.pc = "idle"]

\* the rendering variables while their specifications are not running
RenderIdle == SvgIdle /\ AsciiIdle /\ ArtIdle

\* the rarity variables while the rarity specification is not running
RarityIdle ==
    /\ statsA = ZeroCard /\ statsB = ZeroCard
    /\ powerA = -1 /\ powerB = -1
    /\ rarityA = "none" /\ rarityB = "none"
    /\ rpc = "idle"

\* GitHubWallpaperApp after construction: useState initial values
AppInit ==
    /\ username = <<>>
    /\ userData = Null
    /\ loading = FALSE
    /\ error = ""
    /\ hasSubmitted = FALSE
    /\ selectedTab = 0
    /\ calls = <<>>
    /\ submitted = <<>>
    /\ prevSubmitted = <<>>
    /\ ev = Event("init", "none", 0)
    /\ card = Unmounted
    /\ banner = Unmounted

RarityInit ==
    /\ AppInit /\ ExportIdle /\ PageIdle /\ RenderIdle
    /\ statsA \in CardInputs
    /\ statsB \in CardInputs
    /\ powerA = -1 /\ powerB = -1
    /\ rarityA = "none" /\ rarityB = "none"
    /\ rpc = "input"

\* both cards render: const rarity = calculateRarity()
RenderRarity ==
    /\ rpc = "input"
    /\ powerA' = powerLevel(statsA.user, statsA.extendedStats)
    /\ powerB' = powerLevel(statsB.user, statsB.extendedStats)
    /\ rarityA' = calculateRarity(statsA.user, statsA.extendedStats)
    /\ rarityB' = calculateRarity(statsB.user, statsB.extendedStats)
    /\ rpc' = "done"
    /\ UNCHANGED <<statsA, statsB>>
    /\ UNCHANGED <<appVars, statsVars, exportVars, renderVars, pageVars>>

RarityNext == RenderRarity

RaritySpec == RarityInit /\ [][RarityNext]_vars


\* ------------------------------------------------------------------------
\* generateSVG applied to contribution series
\* ------------------------------------------------------------------------

\* a week as fetchContributionData builds it from the API's counts
Week(counts) == TransformWeek(ApiWeek(counts))

\* a week object that has no contributionDays list
WeekWithoutDays == [first_day |-> ""]

\* a week whose list holds an entry that is undefined
WeekWithHole ==
    [contributionDays |-> <<[contributionCount |-> 2, date |-> ""], <<>>,
                            [contributionCount |-> 7, date |-> ""]>>]

\* a series longer by one week than the graph shows
LongSeries == [i \in 1..(WeeksShown + 1) |-> Week(<<i % 3, 12>>)]

\* user.contributions: what fetchContributionData resolves to, and series
\* with full, short, empty and missing day lists
SvgContributions ==
    {Absent}
    \cup {fetchContributionData(o) : o \in ContributionOutcomes}
    \cup {ContributionData(47, <<Week(<<0, 1, 2, 5, 10, 15, Missing>>),
                                 Week(<<1, 0, 4>>), Week(<<>>),
                                 WeekWithoutDays, WeekWithHole>>),
          ContributionData(30, <<Week(<<>>), WeekWithoutDays>>),
          ContributionData(700, LongSeries)}

\* where generateSVG is called: the preview (isStatic defaults to false) and
\* copyToClipboard(sizeKey)
SvgCallSites == {"preview"} \cup SizeKeys

SvgInit ==
    /\ AppInit /\ RarityIdle /\ ExportIdle /\ PageIdle /\ AsciiIdle /\ ArtIdle
    /\ svg \in [pc : {"input"}, contributions : SvgContributions,
                theme : Themes, site : SvgCallSites, isMobile : BOOLEAN,
                out : {<<>>}, again : {<<>>}]

\* Math.random() streams and clock years of a call: streams that repeat one
\* value and streams that do not, two years
SvgEnvs ==
    {Env([k \in 1..RandomCallsPerRender |-> (a * k + b) % 3], y) :
        a \in 0..1, b \in 0..1, y \in {2025, 2026}}

\* the call of generateSVG at the site svg.site
SvgCall(env) ==
    IF svg.site = "preview"
    THEN previewSVG(svg.contributions, svg.theme, svg.isMobile, env)
    ELSE generateSVG(svg.contributions, svg.theme, SIZES(svg.site).width,
                     SIZES(svg.site).height, TRUE, env)

\* the component renders or copyToClipboard runs: generateSVG returns
RenderSVG(env) ==
    /\ svg.pc = "input"
    /\ svg' = [svg EXCEPT !.pc = "done", !.out = <<SvgCall(env)>>]
    /\ UNCHANGED <<ascii, art>>
    /\ UNCHANGED <<appVars, statsVars, rarityVars, exportVars, pageVars>>

\* the component re-renders, or the handler runs again, with the same props,
\* avatar and arguments: the second call of generateSVG returns
RenderSVGAgain(env) ==
    /\ svg.pc = "done"
    /\ svg' = [svg EXCEPT !.pc = "twice", !.again = <<SvgCall(env)>>]
    /\ UNCHANGED <<ascii, art>>
    /\ UNCHANGED <<appVars, statsVars, rarityVars, exportVars, pageVars>>

SvgNext ==
    \/ \E e \in SvgEnvs : RenderSVG(e)
    \/ \E e \in SvgEnvs : RenderSVGAgain(e)

SvgSpec == SvgInit /\ [][SvgNext]_vars

\* ------------------------------------------------------------------------
\* generateAsciiArt applied to canvases
\* ------------------------------------------------------------------------

\* channel values: the ends, the exact glyph boundary 85 and a colour of
\* RoundedBelow
Channels == {0, 6, 9, 85, 140, 255}

\* alpha values around the threshold
Alphas == {0, 127, 128, 255}

Pixels == {Pixel(r, g, b, a) : r \in Channels, g \in Channels, b \in Channels,
                               a \in Alphas}

AsciiImages ==
    {Uniform(p) : p \in Pixels}
    \cup {Checker(p, q) : p \in {Pixel(0, 0, 0, 255), Pixel(255, 255, 255, 0)},
                          q \in {Pixel(255, 255, 255, 255), Pixel(6, 140, 9, 128)}}

AsciiInit ==
    /\ AppInit /\ RarityIdle /\ ExportIdle /\ PageIdle /\ SvgIdle /\ ArtIdle
    /\ ascii \in [pc : {"input"}, image : AsciiImages, outcome : DecodeOutcomes,
                  out : {<<>>}]
    /\ ascii.outcome # "load" => ascii.image = Uniform(Pixel(0, 0, 0, 255))

\* img.onload or img.onerror runs: the promise of generateAsciiArt resolves
AsciiSettles ==
    /\ ascii.pc = "input"
    /\ ascii' = [ascii EXCEPT !.pc = "done",
                              !.out = generateAsciiArt(ascii.image, ascii.outcome)]
    /\ UNCHANGED <<svg, art>>
    /\ UNCHANGED <<appVars, statsVars, rarityVars, exportVars, pageVars>>

AsciiNext == AsciiSettles

AsciiSpec == AsciiInit /\ [][AsciiNext]_vars

\* ------------------------------------------------------------------------
\* loadArt of a mounted banner
\* ------------------------------------------------------------------------

\* what the avatar looks like on the 60 x 40 canvas
ArtImages == {Uniform(Pixel(255, 255, 255, 255)), Uniform(Pixel(0, 0, 0, 0))}

ArtInit ==
    /\ AppInit /\ RarityIdle /\ ExportIdle /\ PageIdle /\ SvgIdle /\ AsciiIdle
    \* useState("grayscale") is the artType the first banner gets
    /\ \E image \in ArtImages : art = BannerArt("grayscale", image)

ArtNext ==
    \/ \E t \in ArtTypes : SelectArtType(t)
    \/ \E i \in 1..Len(ArtGenerators), o \in DecodeOutcomes : GeneratorSettles(i, o)
    \/ LoadArtResumes

ArtSpec == ArtInit /\ [][ArtNext]_vars

\* ------------------------------------------------------------------------
\* The application
\* ------------------------------------------------------------------------

Init == AppInit /\ RarityIdle /\ ExportIdle /\ PageIdle /\ RenderIdle

Next ==
    \/ \E value \in TypedUsernames : EditUsername(value)
    \/ SubmitInvalid
    \/ SubmitRequest
    \/ \E i \in 1..Len(calls), o \in ProfileOutcomes : ProfileOk(i, o)
    \/ \E i \in 1..Len(calls), o \in ProfileOutcomes : ProfileFailed(i, o)
    \/ \E i \in 1..Len(calls), o \in ContributionOutcomes : ContributionsSettled(i, o)
    \/ \E o \in RepoOutcomes : CardReposSettled(o)
    \/ \E o \in RepoOutcomes : BannerReposSettled(o)

Spec == Init /\ [][Next]_vars

\* every request the browser has issued settles: the response arrives or
\* the fetch promise rejects
FairSpec ==
    /\ Spec
    /\ WF_vars(\E o \in RepoOutcomes : CardReposSettled(o))
    /\ WF_vars(\E o \in RepoOutcomes : BannerReposSettled(o))

\* the WallpaperGenerator of a fetched user, rendered with the default theme
ThemeInit ==
    /\ AppInit /\ RarityIdle /\ ExportIdle /\ AsciiIdle /\ ArtIdle
    /\ PageIdle
    /\ svg \in {[pc |-> "done", contributions |-> c,
                  theme |-> DefaultWallpaperTheme, site |-> "preview",
                  isMobile |-> FALSE,
                  out |-> <<previewSVG(c, DefaultWallpaperTheme, FALSE, e)>>,
                  again |-> <<>>] : c \in SvgContributions, e \in SvgEnvs}

\* the render of WallpaperGenerator: previewSVG is computed in the function
\* body, so an exception of generateSVG ends the render
RenderWallpaper(theme, isMobile, env) ==
    LET out == previewSVG(svg.contributions, theme, isMobile, env) IN
    [svg EXCEPT !.theme = theme, !.isMobile = isMobile, !.out = <<out>>,
                !.pc = IF out = TypeError THEN "crashed" ELSE "done"]

\* wallpaper-theme-selector onChange: setWallpaperTheme(value); the
\* generator renders with the new selectedTheme
SelectWallpaperTheme(value, env) ==
    /\ svg.pc = "done"
    /\ value # wallpaperTheme
    /\ wallpaperTheme' = value
    /\ svg' = RenderWallpaper(value, svg.isMobile, env)
    /\ UNCHANGED <<ascii, art, activeElement, avatar, downloads>>
    /\ UNCHANGED <<appVars, statsVars, rarityVars, exportVars>>

\* the resize listener: setIsMobile(window.innerWidth < 768)
checkMobile(isMobile, env) ==
    /\ svg.pc = "done"
    /\ isMobile # svg.isMobile
    /\ svg' = RenderWallpaper(svg.theme, isMobile, env)
    /\ UNCHANGED <<ascii, art, activeElement, wallpaperTheme, avatar, downloads>>
    /\ UNCHANGED <<appVars, statsVars, rarityVars, exportVars>>

ThemeNext ==
    \/ \E v \in AppThemes, e \in SvgEnvs : SelectWallpaperTheme(v, e)
    \/ \E m \in BOOLEAN, e \in SvgEnvs : checkMobile(m, e)

ThemeSpec == ThemeInit /\ [][ThemeNext]_vars

\* the tab bar and the text input of the form
TabNext ==
    \/ \E i \in 0..(TabCount - 1), f \in BOOLEAN : ClickTab(i, f)
    \/ FocusTabList
    \/ BlurTabList
    \/ \E k \in Keys : handleKeyDown(k)
    \/ \E value \in TypedUsernames : EditUsername(value)

TabSpec == Init /\ [][TabNext]_vars

\* user.contributions of the profile the wallpaper is made for
WallpaperContributions ==
    {EmptyContributions,
     ContributionData(5, <<TransformWeek(ApiWeek(<<1, 0, 4>>))>>)}

\* Math.random() streams and clock years of the wallpaper handlers
WallpaperEnvs ==
    {Env([k \in 1..RandomCallsPerRender |-> k % 2], 2025),
     Env([k \in 1..RandomCallsPerRender |-> (k + 1) % 2], 2026)}

ExportInit == AppInit /\ RarityIdle /\ ExportIdle /\ PageIdle /\ RenderIdle

ExportNext ==
    \/ \E g \in {"card", "banner"}, h \in {"download", "share"},
          a \in CardFormats \cup {"banner"} \cup Platforms, at \in BOOLEAN :
          StartCanvasExport(g, h, a, at)
    \/ \E ok \in BOOLEAN : RasterSettled(ok)
    \/ \E b \in BOOLEAN : CanvasBlobCallback(b)
    \/ \E ok \in BOOLEAN : CanvasClipboardSettled(ok)
    \/ \E s \in SizeKeys, th \in Themes, c \in WallpaperContributions,
          av \in BOOLEAN, cx \in BOOLEAN, e \in WallpaperEnvs :
          StartDownloadWallpaper(s, th, c, av, cx, e)
    \/ \E p \in Platforms, th \in Themes, c \in WallpaperContributions,
          av \in BOOLEAN, cx \in BOOLEAN, e \in WallpaperEnvs :
          StartShareWallpaper(p, th, c, av, cx, e)
    \/ \E o \in ImageOutcomes : WallpaperImageSettled(o)
    \/ \E o \in ImageOutcomes : WallpaperLateImageEvent(o)
    \/ \E b \in BOOLEAN : WallpaperBlobCallback(b)
    \/ \E ok \in BOOLEAN : WallpaperClipboardSettled(ok)
    \/ InstagramFallbackFires

ExportSpec == ExportInit /\ [][ExportNext]_vars

\* a WallpaperGenerator that has just mounted
AvatarInit ==
    /\ AppInit /\ RarityIdle /\ ExportIdle /\ RenderIdle
    /\ activeElement = -1
    /\ wallpaperTheme = DefaultWallpaperTheme
    /\ avatar = AvatarFetching
    /\ downloads = <<>>

\* the steps of convertAvatarToBase64
ConvertAvatarStep ==
    \/ \E ok \in BOOLEAN : AvatarFetchSettled(ok)
    \/ \E ok \in BOOLEAN : AvatarBlobSettled(ok)
    \/ \E ok \in BOOLEAN : AvatarReaderLoadEnd(ok)

\* the avatar conversion and the download and share buttons of the
\* wallpaper tab, one handler run at a time
AvatarNext ==
    \/ \E ok \in BOOLEAN : AvatarFetchSettled(ok)
    \/ \E ok \in BOOLEAN : AvatarBlobSettled(ok)
    \/ \E ok \in BOOLEAN : AvatarReaderLoadEnd(ok)
    \/ \E s \in SizeKeys, c \in WallpaperContributions, cx \in BOOLEAN,
          e \in WallpaperEnvs :
          StartDownloadWallpaper(s, wallpaperTheme, c, AvatarLoaded, cx, e)
    \/ \E p \in Platforms, c \in WallpaperContributions, cx \in BOOLEAN,
          e \in WallpaperEnvs :
          StartShareWallpaper(p, wallpaperTheme, c, AvatarLoaded, cx, e)
    \/ \E o \in ImageOutcomes : WallpaperImageSettled(o)
    \/ \E o \in ImageOutcomes : WallpaperLateImageEvent(o)
    \/ \E b \in BOOLEAN : WallpaperBlobCallback(b)
    \/ \E ok \in BOOLEAN : WallpaperClipboardSettled(ok)
    \/ InstagramFallbackFires

AvatarSpec == AvatarInit /\ [][AvatarNext]_vars

\* every request and every read of the conversion ends
FairAvatarSpec == AvatarSpec /\ WF_vars(ConvertAvatarStep)

\* the avatar conversion and the download buttons of the wallpaper tab,
\* clicked at any time
OverlapNext ==
    \/ \E ok \in BOOLEAN : AvatarFetchSettled(ok)
    \/ \E ok \in BOOLEAN : AvatarBlobSettled(ok)
    \/ \E ok \in BOOLEAN : AvatarReaderLoadEnd(ok)
    \/ \E s \in SizeKeys, cx \in BOOLEAN : downloadWallpaper(s, cx)
    \/ \E i \in 1..Len(downloads), o \in ImageOutcomes :
          DownloadImageSettled(i, o)
    \/ \E i \in 1..Len(downloads), b \in BOOLEAN : DownloadBlobCallback(i, b)

OverlapSpec == AvatarInit /\ [][OverlapNext]_vars


\* ------------------------------------------------------------------------
\* Rarity claims (checked under RaritySpec)
\* ------------------------------------------------------------------------

\* C1: calculateRarity is monotonic in the power level: of two cards, the
\* one with the strictly higher power level never gets a lower tier in the
\* order common < uncommon < rare < epic < legendary < mythical, and a power
\* level of exactly 100 (1000 tenths) is 'uncommon'.
RarityMonotonic ==
    rpc = "done" =>
        /\ (powerA > powerB => TierRank(rarityA) >= TierRank(rarityB))
        /\ (powerA = 1000 => rarityA = "uncommon")

\* a card at exactly 100 next to a weaker card of a lower tier
RarityMonotonicWitness ==
    /\ rpc = "done"
    /\ powerA = 1000 /\ rarityA = "uncommon"
    /\ powerB < powerA /\ rarityB = "common"

\* The documented tier table of prompt-2-devemon-card.md, in tenths:
\* tier t covers lo <= power < hi (hi = -1: no upper end).
DocumentedTiers ==
    [common    |-> [lo |-> 0,     hi |-> 1000],
     uncommon  |-> [lo |-> 1000,  hi |-> 3000],
     rare      |-> [lo |-> 3000,  hi |-> 8000],
     epic      |-> [lo |-> 8000,  hi |-> 20000],
     legendary |-> [lo |-> 20000, hi |-> 50000],
     mythical  |-> [lo |-> 50000, hi |-> -1]]

InTier(table, t, p) ==
    /\ p >= table[t].lo
    /\ (table[t].hi = -1 \/ p < table[t].hi)

TiersOf(table, p) == {t \in DOMAIN table : InTier(table, t, p)}

ReadmeTiers ==
    [common    |-> [lo |-> 0,      hi |-> 1000],
     uncommon  |-> [lo |-> 1000,   hi |-> 5000],
     rare      |-> [lo |-> 5000,   hi |-> 10000],
     epic      |-> [lo |-> 10000,  hi |-> 50000],
     legendary |-> [lo |-> 50000,  hi |-> 100000],
     mythical  |-> [lo |-> 100000, hi |-> -1]]

ReadmePower(user) ==
    100 * user.followers + 50 * user.public_repos + totalContributionsOf(user)

\* C3: the card's power is followers*10 + repos*5 + totalContributions*0.1
\* and the tier is Common 0-99, Uncommon 100-499, Rare 500-999,
\* Epic 1000-4999, Legendary 5000-9999, Mythical 10000+.
RarityMatchesReadme ==
    rpc = "done" =>
        /\ powerA = ReadmePower(statsA.user)
        /\ rarityA \in TiersOf(ReadmeTiers, ReadmePower(statsA.user))

\* C4: with 0 followers, 0 public repositories, contributions absent or 0
\* and extended stats at 0 stars and 0 forks, the power level is 0 and the
\* tier is 'common', the lowest tier.
ZeroProfileIsCommon ==
    (/\ rpc = "done"
     /\ statsA.user.followers = 0
     /\ statsA.user.public_repos = 0
     /\ totalContributionsOf(statsA.user) = 0
     /\ statsA.extendedStats.totalStars = 0
     /\ statsA.extendedStats.totalForks = 0)
    => (powerA = 0 /\ rarityA = RARITY_LEVELS[1])

\* the all-zero profile whose contributions are absent has been rendered
ZeroProfileIsCommonWitness ==
    /\ rpc = "done"
    /\ statsA.user.followers = 0
    /\ statsA.user.public_repos = 0
    /\ statsA.user.contributions = Absent
    /\ statsA.extendedStats.totalStars = 0
    /\ statsA.extendedStats.totalForks = 0
    /\ rarityA = "common"

\* ------------------------------------------------------------------------
\* Application claims (checked under Spec and FairSpec)
\* ------------------------------------------------------------------------

\* no request of the application or of a generator is outstanding
NoRequestOutstanding == calls = <<>> /\ ~card.pending /\ ~banner.pending

\* C5: when the profile request fails (404, another non-OK status, a thrown
\* network error), the app is left with loading = false, userData = null and
\* a non-empty error message ('User not found' for a 404), nothing is
\* outstanding, and a request is issued again only by a submission.
ProfileFailureReported ==
    /\ []((ev.type = "profile" /\ ev.kind # "ok") =>
            /\ loading = FALSE
            /\ userData = Null
            /\ error # ""
            /\ (ev.status = 404 => error = "User not found")
            /\ NoRequestOutstanding)
    /\ [][(NoRequestOutstanding /\ ~NoRequestOutstanding')
            => (ev'.type = "submit" /\ ev'.kind = "request")]_vars

\* a 404 has been reported
ProfileFailureReportedWitness ==
    /\ ev.type = "profile" /\ ev.kind = "status" /\ ev.status = 404
    /\ error = "User not found"
    /\ ~loading

\* C6: when the profile request succeeded and the contributions request
\* fails (non-OK status, thrown error, unparsable body, or a week without
\* contribution_days), userData is set for the submitted user with
\* totalContributions = 0 and no weeks, error stays empty and loading is
\* false again.
ContributionFailureDegrades ==
    /\ []((ev.type = "contributions" /\ ev.kind # "ok") =>
            /\ userData # Null
            /\ userData[1].login = submitted
            /\ userData[1].contributions.present
            /\ userData[1].contributions.totalContributions = 0
            /\ userData[1].contributions.weeks = <<>>
            /\ error = ""
            /\ loading = FALSE)
    /\ [][(ev'.type = "contributions" /\ Len(calls') < Len(calls)) =>
            \E i \in 1..Len(calls) :
                /\ calls[i].pc = "contributions"
                /\ userData' # Null
                /\ userData'[1].login = calls[i].cleanUsername
                /\ userData'[1].followers = calls[i].data.followers
                /\ userData'[1].public_repos = calls[i].data.public_repos]_vars

\* a body whose second week has no contribution_days has been handled
ContributionFailureDegradesWitness ==
    /\ ev.type = "contributions" /\ ev.kind = "nodays"
    /\ userData # Null
    /\ userData[1].followers = 50

FailureKinds == {"status", "throw", "badjson"}

\* what a generator shows once its repository request has settled
StatsSettled(c) ==
    (c.mounted /\ ~c.pending) =>
        /\ ~c.loading
        /\ c.outcome # "none"
        /\ (c.outcome \in FailureKinds => c.extendedStats = ZeroStats)

\* C7: in DevemonCard and in ReadmeBanner, whatever the outcome of the
\* repository request, loading becomes false; after a non-OK status or a
\* thrown error extendedStats keeps its zero values, the card is rendered
\* (loading = false) with them, and the request is not issued again.
ExtendedStatsSettle ==
    /\ [](StatsSettled(card) /\ StatsSettled(banner))
    /\ [][/\ (card.mounted /\ ~card.pending /\ card'.mounted => ~card'.pending)
          /\ (banner.mounted /\ ~banner.pending /\ banner'.mounted
                => ~banner'.pending)]_vars
    /\ ((card.mounted /\ card.loading) ~> (~card.mounted \/ ~card.loading))
    /\ ((banner.mounted /\ banner.loading)
          ~> (~banner.mounted \/ ~banner.loading))

\* the card's request was refused and the banner's request threw
ExtendedStatsSettleWitness ==
    /\ card.mounted /\ card.outcome = "status" /\ ~card.loading
    /\ banner.mounted /\ banner.outcome = "throw" /\ ~banner.loading

\* C9: at most one run of fetchGitHubUser is in flight: while loading is
\* true no run of fetchGitHubUser starts.
SingleRequestInFlight ==
    /\ [](Len(calls) <= 1 /\ (loading <=> calls # <<>>))
    /\ [][loading =>
            ~(ev'.type = "submit" /\ <<ev, error, calls>>' # <<ev, error, calls>>)]_vars

\* a request is in flight while the input already holds another username
SingleRequestInFlightWitness ==
    /\ loading
    /\ Len(calls) = 1 /\ calls[1].pc = "contributions"
    /\ getCleanUsername(username) # <<>>
    /\ getCleanUsername(username) # calls[1].cleanUsername

\* C10: no fetch of an earlier username is outstanding once a newer one has
\* been submitted, and a non-null userData belongs to the username
\* submitted last.
NoStaleResult ==
    /\ \A i \in 1..Len(calls) : calls[i].cleanUsername = submitted
    /\ (userData # Null => userData[1].login = submitted)

\* userData of a second, different username is shown
NoStaleResultWitness ==
    /\ userData # Null
    /\ prevSubmitted # <<>>
    /\ prevSubmitted # submitted
    /\ userData[1].login = submitted


\* ------------------------------------------------------------------------
\* Export claims (checked under ExportSpec)
\* ------------------------------------------------------------------------

ExportFailureCauses == {"raster", "noblob", "clipboard"}

\* C8: every export or share run that fails (the rasterizer throws, no blob
\* is produced, the clipboard write is rejected) has shown exactly one
\* alert when it ends.
ExportFailureNotifiedOnce ==
    (run.pc = "done" /\ run.cause \in ExportFailureCauses) => run.alerts = 1

\* C11: the wait for the SVG image in copyToClipboard settles exactly once:
\* resolved exactly when the first event is the load, rejected exactly when
\* it is the error or the 10 s timeout, never changed by a later event of
\* the same run, and the code after the await runs once; load and error
\* cancel the timer; a downloadWallpaper run whose wait timed out has ended
\* with one alert, no download and downloadingSize reset.
ImageWaitSettlesOnce ==
    /\ [](run.generator = "wallpaper" =>
            /\ run.resumed <= 1
            /\ (run.wait = "pending") = (run.pc = "image")
            /\ (run.wait = "pending") = (run.first = "none" /\ run.img = "loading")
            /\ (run.wait = "resolved") = (run.first = "load")
            /\ (run.wait = "rejected") = (run.first \in {"error", "timeout"})
            /\ (run.wait \in {"resolved", "rejected"}) = (run.resumed = 1)
            /\ (run.first \in {"load", "error"} => run.loadTimer = "cleared")
            /\ (run.first = "timeout" => run.loadTimer = "fired")
            /\ (run.handler = "download" /\ run.first = "timeout" =>
                   /\ run.pc = "done" /\ run.cause = "raster"
                   /\ run.alerts = 1 /\ run.downloaded = 0
                   /\ downloadingSize = NoSize))
    /\ [][run.wait \in {"resolved", "rejected"} /\ run'.wait # run.wait
            => run'.wait \in {"none", "pending"} /\ run'.resumed = 0]_vars

\* a download whose wait timed out, and whose image loaded afterwards
ImageWaitSettlesOnceWitness ==
    /\ run.generator = "wallpaper" /\ run.handler = "download"
    /\ run.first = "timeout" /\ run.wait = "rejected"
    /\ run.img = "loaded"
    /\ run.alerts = 1 /\ run.downloaded = 0


\* ------------------------------------------------------------------------
\* generateSVG claims (checked under SvgSpec)
\* ------------------------------------------------------------------------

\* the day entries a week holds: positions 0.. of its list that are defined
DayEntries(week) ==
    IF "contributionDays" \in DOMAIN week
    THEN {d \in 0..(Len(week.contributionDays) - 1) :
            DOMAIN week.contributionDays[d + 1] # {}}
    ELSE {}

RECURSIVE CountDayEntries(_)
CountDayEntries(weeks) ==
    IF weeks = <<>> THEN 0
    ELSE Cardinality(DayEntries(weeks[1])) + CountDayEntries(Tail(weeks))

\* the weeks of a series, <<>> when user.contributions is absent
WeeksOf(contributions) ==
    IF contributions.present THEN contributions.weeks ELSE <<>>

\* the last 53 weeks of a series
LastYearOf(weeks) ==
    IF Len(weeks) <= 53 THEN weeks ELSE SubSeq(weeks, Len(weeks) - 52, Len(weeks))

\* the squares of an SVG are exactly the day entries of the given weeks:
\* one square for each, at the entry's week and day position
SquaresAre(out, weeks) ==
    /\ Len(out.squares) = CountDayEntries(weeks)
    /\ \A i \in 1..Len(out.squares) :
          /\ out.squares[i].weekIdx \in 0..(Len(weeks) - 1)
          /\ out.squares[i].dayIdx \in DayEntries(weeks[out.squares[i].weekIdx + 1])
    /\ \A i, j \in 1..Len(out.squares) :
          (/\ out.squares[i].weekIdx = out.squares[j].weekIdx
           /\ out.squares[i].dayIdx = out.squares[j].dayIdx) => i = j

DocumentedSize(sizeKey) ==
    IF sizeKey = "desktop" THEN [width |-> 2560, height |-> 1440]
    ELSE IF sizeKey = "mobile" THEN [width |-> 1170, height |-> 2532]
    ELSE [width |-> 320, height |-> 240]

\* C13: the canvas downloadWallpaper(sizeKey) rasterizes onto has exactly
\* the documented size of the key: desktop 2560x1440, mobile 1170x2532,
\* small 320x240, whatever the user data and the theme.
WallpaperCanvasHasDocumentedSize ==
    (run.generator = "wallpaper" /\ run.handler = "download" /\ run.canvas # <<>>)
        => run.canvas[1] = DocumentedSize(run.arg)

\* C14: the PNG downloadBanner saves is exactly 1280x320 pixels, the size
\* of the banner element.
BannerPngHasElementSize ==
    (run.generator = "banner" /\ run.handler = "download" /\ run.downloaded = 1)
        => run.canvas = <<[width |-> 1280, height |-> 320]>>

\* no <style> block with keyframes and no class attribute on any element
NoAnimationMarkup(s) ==
    /\ s.keyframes = {}
    /\ \A i \in 1..Len(s.elements) : s.elements[i].class = ""
    /\ \A i \in 1..Len(s.squares) : s.squares[i].class = ""

\* a <style> block with keyframes, classes on template elements and on
\* every square
AnimationMarkup(s) ==
    /\ s.keyframes # {}
    /\ \E i \in 1..Len(s.elements) : s.elements[i].class # ""
    /\ \A i \in 1..Len(s.squares) : s.squares[i].class = "contribution-square"

\* C15: the SVG a wallpaper download or share rasterizes is generated with
\* isStatic = true, at the canvas' size, and carries no <style> block and
\* no class attribute, for every theme; the preview SVG of the same
\* component (isStatic = false) carries the animation markup.
RasterizedSvgIsStatic ==
    run.svg # <<>> =>
        /\ run.generator = "wallpaper"
        /\ run.svg[1].isStatic
        /\ NoAnimationMarkup(run.svg[1])
        /\ \A isMobile \in BOOLEAN, e \in WallpaperEnvs :
              LET p == previewSVG(run.contributions, run.theme, isMobile, e) IN
              ~p.isStatic /\ AnimationMarkup(p)

\* a downloaded wallpaper of the Universe theme with contribution squares
RasterizedSvgIsStaticWitness ==
    /\ run.svg # <<>>
    /\ run.theme = "universe-octocanvas"
    /\ run.svg[1].squares # <<>>
    /\ run.handler = "download" /\ run.downloaded = 1

SharePlatformsWithWindow == {"twitter", "bluesky", "threads"}

\* C16: a wallpaper share to Twitter/X, Bluesky or Threads that found the
\* avatar loaded opens the share window exactly once: not before the run
\* ends, after the clipboard write and the one success notice when the copy
\* succeeded, after the one failure notice when the PNG generation or the
\* clipboard write failed.
ShareWindowOpenedOnce ==
    (/\ run.generator = "wallpaper" /\ run.handler = "share"
     /\ run.arg \in SharePlatformsWithWindow
     /\ run.svg # <<>>) =>
        /\ run.pc # "done" => run.opened = 0 /\ run.alerts = 0
        /\ run.pc = "done" =>
              /\ run.opened = 1 /\ run.alerts = 1 /\ run.openedAfter = 1
              /\ run.written = (run.cause = "none")
              /\ run.cause \in {"none", "raster", "noblob", "clipboard"}

\* a Twitter share whose clipboard write was rejected has ended
ShareWindowOpenedOnceWitness ==
    /\ run.generator = "wallpaper" /\ run.handler = "share"
    /\ run.arg = "twitter" /\ run.svg # <<>>
    /\ run.pc = "done" /\ run.cause = "clipboard"
    /\ run.opened = 1


\* ------------------------------------------------------------------------
\* Art claims (checked under AsciiSpec)
\* ------------------------------------------------------------------------

\* the colour of the canvas' first pixel
FirstPixel == ascii.image.p

AsciiDone == ascii.pc = "done" /\ ascii.outcome = "load"

\* C17: for every colour with channels in 0..255 the luminosity 0.299 R +
\* 0.587 G + 0.114 B lies in [0, 255] and does not decrease when one
\* channel grows and the other two stay.
LuminosityBoundedMonotone ==
    AsciiDone =>
        LET p == FirstPixel IN
        /\ brightness(p.r, p.g, p.b) >= 0
        /\ brightness(p.r, p.g, p.b) <= 255 * BrightnessUnit
        /\ \A c \in Channels :
              /\ c >= p.r => brightness(c, p.g, p.b) >= brightness(p.r, p.g, p.b)
              /\ c >= p.g => brightness(p.r, c, p.b) >= brightness(p.r, p.g, p.b)
              /\ c >= p.b => brightness(p.r, p.g, c) >= brightness(p.r, p.g, p.b)

\* the art of a white canvas and the art of a black canvas have been made
LuminosityBoundedMonotoneWitness ==
    /\ AsciiDone
    /\ ascii.image.kind = "checker"
    /\ brightness(ascii.image.p.r, ascii.image.p.g, ascii.image.p.b) = 0
    /\ brightness(ascii.image.q.r, ascii.image.q.g, ascii.image.q.b)
          = 255 * BrightnessUnit
    /\ ascii.image.p.a = 255 /\ ascii.image.q.a = 255

\* the characters of the palette
PaletteChars == {asciiChars[i] : i \in 1..Len(asciiChars)}

\* C18: for every decoded image generateAsciiArt returns 40 rows of exactly
\* 60 palette characters, each followed by one newline, 2440 characters in
\* all, whatever the pixels are.
AsciiArtShape ==
    AsciiDone =>
        /\ Len(ascii.out) = 2440
        /\ \A i \in 1..Len(ascii.out) :
              IF i % 61 = 0 THEN ascii.out[i] = Newline
              ELSE ascii.out[i] \in PaletteChars

\* the art of a fully transparent canvas
AsciiArtShapeWitness ==
    /\ AsciiDone
    /\ ascii.image.kind = "uniform" /\ ascii.image.p.a = 0
    /\ Len(ascii.out) = 2440
    /\ \A i \in 1..Len(ascii.out) : i % 61 # 0 => ascii.out[i] = Space

\* the glyph the claim describes for a pixel: a space below half alpha,
\* else the palette entry at floor(luminosity / 255 * (N - 1))
DocumentedGlyph(p) ==
    IF p.a < 128 THEN 32
    ELSE asciiChars[((brightness(p.r, p.g, p.b) * 69) \div (255 * BrightnessUnit)) + 1]

\* C19: every character of the art is the documented glyph of its pixel; the
\* glyph index lies in 0..N-1, does not decrease with the luminosity, is 0
\* (the first glyph) for luminosity 0 and N-1 (the last glyph) for 255.
GlyphFollowsLuminosity ==
    AsciiDone =>
        LET p == ascii.image.p
            q == ascii.image.q
        IN
        /\ Len(asciiChars) = 70
        /\ Len(ascii.out) >= 2
        /\ ascii.out[1] = DocumentedGlyph(p)
        /\ ascii.out[2] = DocumentedGlyph(q)
        /\ charIndex(p.r, p.g, p.b) \in 0..(Len(asciiChars) - 1)
        /\ \A o \in Pixels :
              brightness(o.r, o.g, o.b) >= brightness(p.r, p.g, p.b)
                  => charIndex(o.r, o.g, o.b) >= charIndex(p.r, p.g, p.b)
        /\ brightness(p.r, p.g, p.b) = 0 => charIndex(p.r, p.g, p.b) = 0
        /\ brightness(p.r, p.g, p.b) = 255 * BrightnessUnit
              => charIndex(p.r, p.g, p.b) = Len(asciiChars) - 1

\* an opaque canvas of a colour at a glyph boundary whose sum the doubles
\* round down
GlyphFollowsLuminosityWitness ==
    /\ AsciiDone
    /\ ascii.image.kind = "uniform"
    /\ <<ascii.image.p.r, ascii.image.p.g, ascii.image.p.b>> \in RoundedBelow
    /\ ascii.image.p.a = 128
    /\ ascii.out[1] = asciiChars[23]


\* ------------------------------------------------------------------------
\* Art loading claims (checked under ArtSpec)
\* ------------------------------------------------------------------------

\* the i-th generator's image failed to load or its canvas had no context
ArtFailed(i) == art.promises[i].outcome \in {"noctx", "error"}

\* C20: a generator whose avatar image fails to load or whose canvas has no
\* 2d context resolves to the empty string, no generator promise and
\* neither Promise.all nor loadArt is ever rejected, and once loadArt has
\* set the states the banner shows no art column for an art type whose
\* generator failed, also when that type is the selected one.
FailedArtResolvesEmpty ==
    /\ art.pc # "rejected"
    /\ PromiseAll(art.promises) # "rejected"
    /\ \A i \in 1..Len(ArtGenerators) :
          /\ art.promises[i].state # "rejected"
          /\ ArtFailed(i) =>
                /\ art.promises[i].state = "resolved"
                /\ art.promises[i].value = <<>>
                /\ art.pc = "done" =>
                      /\ ArtStateOf(art, ArtGenerators[i]) = <<>>
                      /\ ~ArtColumnShown(art, ArtGenerators[i])
    /\ art.pc = "loading" =>
          \A t \in ArtTypes : ~ArtColumnShown(art, t)

\* loadArt has finished for a banner showing ASCII art whose ASCII image
\* failed to load while the pixel art was made
FailedArtResolvesEmptyWitness ==
    /\ art.pc = "done"
    /\ art.artType = "ascii"
    /\ art.promises[1].outcome = "error"
    /\ art.promises[2].outcome = "load"
    /\ art.promises[3].outcome = "noctx"
    /\ art.pixelArtData # <<>>
    /\ ~ArtColumnShown(art, "ascii")

\* ------------------------------------------------------------------------
\* Determinism of generateSVG (checked under SvgSpec)
\* ------------------------------------------------------------------------

\* C21: two calls of generateSVG with the same user data, theme, avatar,
\* width, height and isStatic flag return the same markup, for every theme.
GenerateSvgDeterministic ==
    svg.pc = "twice" => svg.again = svg.out

\* the two calls agree on everything but the gradient ids of the decorative
\* elements and the year range of the caption
GenerateSvgSameLayout ==
    svg.pc = "twice" =>
        LET a == svg.out[1]
            b == svg.again[1] IN
        /\ a.width = b.width /\ a.height = b.height
        /\ a.keyframes = b.keyframes /\ a.elements = b.elements
        /\ a.squares = b.squares
        /\ Len(a.decorative) = Len(b.decorative)
        /\ \A i \in 1..Len(a.decorative) :
              [a.decorative[i] EXCEPT !.gradientId = <<>>]
                  = [b.decorative[i] EXCEPT !.gradientId = <<>>]

\* ------------------------------------------------------------------------
\* Tab navigation (checked under TabSpec)
\* ------------------------------------------------------------------------

\* C22: after any sequence of tab clicks and key events reaching
\* handleKeyDown, selectedTab is 0, 1 or 2, the focused tab is the selected
\* one and no handler has thrown; ArrowRight on the last tab selects the
\* first, ArrowLeft on the first tab selects the last, ArrowRight and
\* ArrowLeft elsewhere select the next and the previous tab, and any other
\* key leaves selectedTab unchanged.
TabNavigationWraps ==
    /\ [](/\ selectedTab \in 0..(TabCount - 1)
          /\ ev.kind # "throw"
          /\ activeElement # -1 => activeElement = selectedTab)
    /\ [][ev'.type = "keydown" /\ activeElement # -1 /\ ev'.status = selectedTab =>
            /\ (ev'.kind = "ArrowRight" =>
                    selectedTab' = IF selectedTab = TabCount - 1 THEN 0
                                   ELSE selectedTab + 1)
            /\ (ev'.kind = "ArrowLeft" =>
                    selectedTab' = IF selectedTab = 0 THEN TabCount - 1
                                   ELSE selectedTab - 1)
            /\ (ev'.kind \notin {"ArrowLeft", "ArrowRight"} =>
                    selectedTab' = selectedTab)]_vars

\* ArrowRight pressed on the last tab after a click on it, selecting the
\* first tab
TabNavigationWrapsWitness ==
    /\ ev = Event("keydown", "ArrowRight", TabCount - 1)
    /\ selectedTab = 0 /\ activeElement = 0

\* ------------------------------------------------------------------------
\* The Generate button (checked under Spec)
\* ------------------------------------------------------------------------

\* the handler that ran last ended a run of fetchGitHubUser that had issued
\* its request
SubmissionCompleted ==
    \/ ev.type = "profile" /\ ev.kind # "ok"
    \/ ev.type = "contributions"

\* the button is rendered exactly when hasSubmitted is false or loading is
\* true, and is rendered and disabled while a request is in flight
ButtonWhileInFlight ==
    /\ SubmitButtonRendered <=> (~hasSubmitted \/ loading)
    /\ SubmitButtonDisabled <=> loading
    /\ calls # <<>> <=> loading
    /\ loading => SubmitButtonRendered /\ SubmitButtonDisabled

\* C23: the Generate button is rendered exactly when hasSubmitted is false
\* or loading is true: it is rendered but disabled while a request is in
\* flight, is gone once a submission has completed, and reappears only
\* after the username input is edited.
GenerateButtonLifecycle ==
    /\ [](ButtonWhileInFlight)
    /\ [](SubmissionCompleted => ~SubmitButtonRendered)
    /\ [][~SubmitButtonRendered /\ SubmitButtonRendered' => ev'.type = "edit"]_vars

\* C23 (amended): the Generate button is rendered exactly when hasSubmitted
\* is false or loading is true: it is rendered but disabled while a request
\* is in flight; hasSubmitted is set by a submission that issues a request
\* and reset only by an edit of the username input, so once a submission
\* has completed the button is gone unless the input was edited after the
\* request was issued; a hidden button reappears enabled only by an edit,
\* and disabled when the form is submitted again from the text input.
GenerateButtonLifecycleAmended ==
    /\ [](ButtonWhileInFlight)
    /\ [](SubmissionCompleted /\ hasSubmitted => ~SubmitButtonRendered)
    /\ [][/\ (hasSubmitted /\ ~hasSubmitted' => ev'.type = "edit")
          /\ (~hasSubmitted /\ hasSubmitted' => ev' = Event("submit", "request", 0))
          /\ (ev'.type = "edit" => ~hasSubmitted')
          /\ (~SubmitButtonRendered /\ SubmitButtonRendered' =>
                 \/ ev'.type = "edit" /\ ~SubmitButtonDisabled'
                 \/ ev' = Event("submit", "request", 0) /\ SubmitButtonDisabled')
         ]_vars

\* a successful submission has completed and the button is gone
GenerateButtonLifecycleAmendedWitness ==
    /\ ev.type = "contributions" /\ userData # Null
    /\ hasSubmitted /\ ~loading /\ ~SubmitButtonRendered

\* ------------------------------------------------------------------------
\* Error message and previews (checked under Spec)
\* ------------------------------------------------------------------------

\* C24: a non-empty error message and a non-null userData never coexist,
\* after any sequence of submissions.
ErrorExcludesPreview ==
    ~(error # "" /\ userData # Null)

\* ------------------------------------------------------------------------
\* Selectable themes (checked under ThemeSpec)
\* ------------------------------------------------------------------------

\* C25: every theme key the app lets the user select has a configuration
\* in the wallpaper generator, so the generator's render returns an SVG for
\* the selected theme and never fails on an undefined theme.
SelectableThemesConfigured ==
    /\ wallpaperTheme \in Themes
    /\ svg.pc # "crashed"
    /\ svg.out # <<TypeError>>

\* ------------------------------------------------------------------------
\* getCleanUsername (checked under Spec)
\* ------------------------------------------------------------------------

\* C26: for every text of the input, getCleanUsername is idempotent and its
\* result neither starts with '@' nor has leading or trailing whitespace; a
\* submission is rejected with 'Please enter a valid GitHub username',
\* without any request, exactly when that result is empty.
CleanUsernameIsClean ==
    LET c == getCleanUsername(username) IN
    /\ getCleanUsername(c) = c
    /\ c # <<>> => c[1] # "@" /\ ~IsSpace(c[1]) /\ ~IsSpace(c[Len(c)])
    /\ ev.type = "submit" =>
          /\ ev.kind = "invalid" <=> c = <<>>
          /\ ev.kind = "invalid" =>
                error = "Please enter a valid GitHub username"
          /\ ev.kind = "request" => submitted = c

\* ------------------------------------------------------------------------
\* downloadingSize (checked under OverlapSpec)
\* ------------------------------------------------------------------------

\* C27: downloadingSize is non-null exactly while a wallpaper download is
\* in progress: it is never null while a download is still running, it
\* names a download that is still running, and it is null once all
\* downloads have finished.
DownloadingSizeTracksDownloads ==
    /\ downloadingSize # NoSize <=> downloads # <<>>
    /\ downloadingSize # NoSize =>
          \E i \in 1..Len(downloads) : downloads[i].sizeKey = downloadingSize

\* ------------------------------------------------------------------------
\* Avatar conversion and the wallpaper handlers (checked under AvatarSpec)
\* ------------------------------------------------------------------------

\* the run of a wallpaper share handler that showed one notice and returned
\* before anything else
NoticeOnly(r) ==
    [WithProps(StartRun("wallpaper", "share", r.arg, "image"),
               r.theme, r.contributions)
        EXCEPT !.pc = "done", !.alerts = 1]

\* C28: a wallpaper share handler (Twitter/X, Bluesky, Threads, Instagram)
\* invoked while avatarBase64Ref is empty shows one notice and returns with
\* nothing else changed: no SVG or PNG is generated, the clipboard is not
\* written, no window is opened and no timer is set.
ShareWaitsForAvatar ==
    [][(/\ ~AvatarLoaded
        /\ run' # run
        /\ run'.generator = "wallpaper" /\ run'.handler = "share") =>
           /\ run'.arg \in Platforms
           /\ run' = NoticeOnly(run')
           /\ run'.svg = <<>> /\ run'.canvas = <<>> /\ ~run'.written
           /\ run'.opened = 0 /\ ~run'.timer
           /\ UNCHANGED <<downloadingSize, appVars, statsVars, pageVars>>]_vars

\* the Instagram handler was invoked while the FileReader was still reading
ShareWaitsForAvatarWitness ==
    /\ avatar.pc = "read" /\ ~AvatarLoaded
    /\ run.handler = "share" /\ run.arg = "instagram"
    /\ run = NoticeOnly(run)

\* C30: WallpaperGenerator eventually leaves the 'Loading avatar...' state
\* whether the avatar fetch succeeds or fails, and from then on the
\* avatarBase64 state and avatarBase64Ref hold the same non-empty value:
\* the data URL after a success, the original URL after a failure.
AvatarEventuallyShown ==
    <>[](/\ ~LoadingAvatar
         /\ avatar.avatarBase64 = avatar.avatarBase64Ref
         /\ avatar.avatarBase64 \in {AvatarDataUrl, AvatarUrl})

\* ------------------------------------------------------------------------
\* Aggregation of the repository list (checked under Spec)
\* ------------------------------------------------------------------------

\* the sum of f over the indices in S
RECURSIVE SumOver(_, _)
SumOver(f, S) ==
    IF S = {} THEN 0
    ELSE LET i == CHOOSE j \in S : TRUE IN f[i] + SumOver(f, S \ {i})

\* the star and fork counts of a list, a missing count taken as 0
StarsOf(repos) ==
    SumOver([i \in 1..Len(repos) |->
                IF repos[i].stargazers_count = Missing THEN 0
                ELSE repos[i].stargazers_count], 1..Len(repos))

ForksOf(repos) ==
    SumOver([i \in 1..Len(repos) |->
                IF repos[i].forks_count = Missing THEN 0
                ELSE repos[i].forks_count], 1..Len(repos))

\* the languages of a list and the number of repositories using one
LanguagesOf(repos) == {repos[i].language : i \in 1..Len(repos)} \ {""}

ReposUsing(repos, l) == Cardinality({i \in 1..Len(repos) : repos[i].language = l})

\* names is a ranking of the n most used languages of the list
RankedTop(names, repos, n) ==
    /\ Len(names) = IF Cardinality(LanguagesOf(repos)) < n
                    THEN Cardinality(LanguagesOf(repos)) ELSE n
    /\ \A i \in 1..Len(names) : names[i] \in LanguagesOf(repos)
    /\ \A i, j \in 1..Len(names) : i # j => names[i] # names[j]
    /\ \A i, j \in 1..Len(names) :
          i < j => ReposUsing(repos, names[i]) >= ReposUsing(repos, names[j])
    /\ \A l \in LanguagesOf(repos) :
          (\A i \in 1..Len(names) : names[i] # l) =>
              \A i \in 1..Len(names) :
                  ReposUsing(repos, names[i]) >= ReposUsing(repos, l)

====
